---- MODULE Spec2Model ----
(***************************************************************************)
(* A model of the Sorcar "Generate" node: the DSL interpreter DslContext   *)
(* (cursor, scopes, export captures, definitions, errors), the DSL         *)
(* operations (Gn* classes) and the driver ScGenerate.post_execute.        *)
(*                                                                         *)
(* Python's call stack is the variable `stack`: one frame per active       *)
(* evaluate_production / Gn*.execute / create_instance call, so that every *)
(* intermediate context state is a state of the model.                     *)
(***************************************************************************)
EXTENDS Integers, Sequences, FiniteSets, TLC

VARIABLES
    prog,               \* the text of the rule file, already read (file_text)
    seed,               \* the Seed input of the node
    pc,                 \* position of the node: "idle" no post_execute ran
                        \* in its last execution, "exec" inside
                        \* ScNode.execute before post_execute, "eval" inside
                        \* evaluate_production, "done" post_execute returned,
                        \* "raised" post_execute raised
    sc_node,            \* ScNode: first_time, scope_context_id, node_error
    scope_context,      \* the scope context the node is executed in
    budget,             \* the calls of ScNode.execute still to come
    hist,               \* history of the runs of post_execute: how many began
                        \* since the reset, whether the current one was
                        \* seeded, the random states it went through, the
                        \* steps of its Repeat and EachLink loops, the
                        \* random state at the end of the last one, and the
                        \* record of the seeded run before the current one
    ctx,                \* the DslContext of the run
    objects,            \* bpy.data.objects: the scene graph
    stack,              \* the Python call stack of the interpreter
    ret,                \* return value of the last evaluate_production call
    nid,                \* next call-frame identity
    prop_obj_array,     \* ScGenerate.prop_obj_array
    prop_random_state,  \* ScGenerate.prop_random_state
    last,               \* history: what the last step did (act, op, raised,
                        \* the context, the stack depth and the number of
                        \* scene nodes before it, the calls it ended) and
                        \* the top-level operations prepared / executed /
                        \* found failed by the check after their execute
    tree                \* a node tree with two nested for-loops around a
                        \* node: the ScNode fields of its nodes, the calls
                        \* of ScNode.execute in progress and their history

vars == <<prog, seed, pc, sc_node, scope_context, budget, hist, ctx, objects,
          stack, ret, nid, prop_obj_array, prop_random_state, last, tree>>

-----------------------------------------------------------------------------
(* Bounds of the model *)

\* longest top-level operation list of a rule file
MaxTopLen == 2
\* largest Seed input
MaxSeed == 1
\* most calls of ScNode.execute on the node
MaxExec == 2
\* deepest call stack of the interpreter: Python's recursion limit, counted
\* in calls of evaluate_production, Gn*.execute and create_instance
RecursionLimit == 12

-----------------------------------------------------------------------------
(* The random stream: numpy.random.RandomState, as a linear congruential   *)
(* generator over RandMod values; rand() is rand_state / RandMod.          *)

RandMod == 16
RandMul == 5
RandInc == 3

RandomState(s) == s % RandMod

RandNext(s) == (RandMul * s + RandInc) % RandMod

-----------------------------------------------------------------------------
(* Values of the DSL *)

None == 0
NoProp == ""
\* prop_random_state before any run saved one: the empty string
NoState == -1

\* A value of the DSL: a Python None, int or str, or a DslValue object.  v is
\* its type; lo / hi are the bounds of a GnRange; w the weights list of a
\* GnWeighted; of holds the `value` attribute of a GnStatic.
Value(v, n, s, lo, hi, w, of) ==
    [v |-> v, n |-> n, s |-> s, lo |-> lo, hi |-> hi, w |-> w, of |-> of]

NoneV == Value("none", 0, "", 0, 0, <<>>, <<>>)
IntV(n) == Value("int", n, "", 0, 0, <<>>, <<>>)
StrV(s) == Value("str", 0, s, 0, 0, <<>>, <<>>)
GnRange(lo, hi) == Value("range", 0, "", lo, hi, <<>>, <<>>)
GnWeighted(weights) == Value("weighted", 0, "", 0, 0, weights, <<>>)
GnStatic(value) == Value("static", 0, "", 0, 0, <<>>, <<value>>)

\* An element of a weights list: a tuple of len items (weight first, value
\* second), or something that is no tuple or list (isTuple false).
Tuple(len, weight, value) ==
    [isTuple |-> TRUE, len |-> len, weight |-> weight, value |-> value]
Pair(weight, value) == Tuple(2, weight, value)
NoTuple(weight) == [isTuple |-> FALSE, len |-> 0, weight |-> weight, value |-> NoneV]

\* isinstance(value, DslValue)
\* the element of a set of one element: Only({ e(x) : x \in {v} }) is e(x)
\* for the local variable x = v, v computed once
Only(S) == CHOOSE y \in S : TRUE

IsDslValue(value) == value.v \in {"range", "weighted", "static"}

\* GnRange.prepare
GnRange_prepare(c, value) ==
    IF value.lo > value.hi
    THEN [ok |-> FALSE,
          c |-> [c EXCEPT !.errors =
                     Append(@, "GnRange: max_value is less than min_value")]]
    ELSE [ok |-> TRUE, c |-> c]

\* GnRange.evaluate: randint(min, max + 1); numpy raises ValueError when the
\* interval is empty
GnRange_evaluate(c, value) ==
    LET r == RandNext(c.rand_state) IN
    IF value.lo > value.hi
    THEN [val |-> value, c |-> c, exc |-> TRUE]
    ELSE [val |-> IntV(value.lo + (r % (value.hi - value.lo + 1))),
          c |-> [c EXCEPT !.rand_state = r], exc |-> FALSE]

\* GnWeighted.prepare: the weights are a list whose elements are tuples or
\* lists
GnWeighted_prepare(c, value) ==
    IF \E k \in 1..Len(value.w) : ~value.w[k].isTuple
    THEN [ok |-> FALSE,
          c |-> [c EXCEPT !.errors =
                     Append(@, "GnWeighted: weights must be tuple or list of tuple or list pairs")]]
    ELSE [ok |-> TRUE, c |-> c]

RECURSIVE TotalWeight(_, _)
\* `for w in self.weights: total += w[0]`
TotalWeight(weights, k) ==
    IF k > Len(weights) THEN 0 ELSE weights[k].weight + TotalWeight(weights, k + 1)

\* a comparison that rejects a cumulative weight equal to the threshold
ReachesThresh_strict(sum, rand, total) == sum * RandMod > total * rand

\* sum >= thresh, where thresh = total * (rand / RandMod)
ReachesThresh(sum, rand, total) == sum * RandMod >= total * rand

RECURSIVE WeightedIndex(_, _, _, _, _)
\* the selection loop of GnWeighted.evaluate: the index of the first element
\* whose cumulative weight reaches the threshold, or 0
WeightedIndex(weights, k, sum, rand, total) ==
    IF k > Len(weights) THEN 0
    ELSE LET sum1 == sum + weights[k].weight IN
         IF ReachesThresh(sum1, rand, total) THEN k
         ELSE WeightedIndex(weights, k + 1, sum1, rand, total)

\* GnWeighted.evaluate: w[0] of an element that is no sequence or is empty
\* raises (TypeError, IndexError), as does w[1] of a 1-tuple; the fallback
\* `self.weights[self.weights - 1]` subtracts an int from a list and raises
\* TypeError
GnWeighted_evaluate(c, value) ==
    LET weights == value.w
        rand == RandNext(c.rand_state)
        c1 == [c EXCEPT !.rand_state = rand]
        k == WeightedIndex(weights, 1, 0, rand, TotalWeight(weights, 1))
    IN IF \E j \in 1..Len(weights) : ~weights[j].isTuple \/ weights[j].len = 0
       THEN [val |-> NoneV, c |-> c, exc |-> TRUE]
       ELSE IF k # 0 /\ weights[k].len < 2
       THEN [val |-> NoneV, c |-> c1, exc |-> TRUE]
       ELSE LET chosen == IF k = 0 THEN NoneV ELSE weights[k].value IN
            IF chosen = NoneV /\ Len(weights) > 0
            THEN [val |-> NoneV, c |-> c1, exc |-> TRUE]
            ELSE [val |-> chosen, c |-> c1, exc |-> FALSE]

\* GnStatic.evaluate
GnStatic_evaluate(c, value) == [val |-> value.of[1], c |-> c, exc |-> FALSE]

\* value.evaluate(ctx)
evaluate(c, value) ==
    CASE value.v = "range" -> GnRange_evaluate(c, value)
      [] value.v = "weighted" -> GnWeighted_evaluate(c, value)
      [] value.v = "static" -> GnStatic_evaluate(c, value)

RECURSIVE evaluate_value(_, _)
\* DslOp.evaluate_value: `while isinstance(value, DslValue): value =
\* value.evaluate(ctx)`
evaluate_value(c, value) ==
    IF IsDslValue(value)
    THEN Only({ IF r.exc THEN r ELSE evaluate_value(r.c, r.val) :
                  r \in {evaluate(c, value)} })
    ELSE [val |-> value, c |-> c, exc |-> FALSE]

\* GnStatic.prepare: the wrapped value is evaluated until it is no DslValue
\* and kept in self.value; value is the GnStatic afterwards
GnStatic_prepare(c, value) ==
    LET r == evaluate_value(c, value.of[1]) IN
    [ok |-> TRUE, c |-> r.c, exc |-> r.exc,
     value |-> IF r.exc THEN value ELSE [value EXCEPT !.of = <<r.val>>]]

\* DslOp.prepare_value: value.prepare(ctx) of a DslValue; value is the value
\* object afterwards, exc whether the call raised
prepare_value(c, value) ==
    CASE value.v = "range" ->
            LET r == GnRange_prepare(c, value) IN
            [ok |-> r.ok, c |-> r.c, exc |-> FALSE, value |-> value]
      [] value.v = "weighted" ->
            LET r == GnWeighted_prepare(c, value) IN
            [ok |-> r.ok, c |-> r.c, exc |-> FALSE, value |-> value]
      [] value.v = "static" -> GnStatic_prepare(c, value)
      [] OTHER -> [ok |-> TRUE, c |-> c, exc |-> FALSE, value |-> value]

-----------------------------------------------------------------------------
(* Operations of the DSL: op is the class, arg its first argument, seq its *)
(* sequence, flag the `absolute` key of GnMove.                            *)

Op(kind, arg, seq, flag) == [op |-> kind, arg |-> arg, seq |-> seq, flag |-> flag]

GnDefine(name, seq)     == Op("Define", name, seq, FALSE)
GnExportLink(alias)     == Op("ExportLink", alias, <<>>, FALSE)
GnScope(seq)            == Op("Scope", IntV(0), seq, FALSE)
GnRepeat(count, seq)    == Op("Repeat", count, seq, FALSE)
GnInstance(name)        == Op("Instance", name, <<>>, FALSE)
GnCopyParentLinkChildren(link) == Op("CopyParentLinkChildren", link, <<>>, FALSE)
GnCreateLink(name)      == Op("CreateLink", name, <<>>, FALSE)
GnLink(name)            == Op("Link", name, <<>>, FALSE)
GnEachLink(pattern, seq) == Op("EachLink", pattern, seq, FALSE)
GnMaybe(ratio, seq)     == Op("Maybe", ratio, seq, FALSE)
GnMove(location, absolute) == Op("Move", location, <<>>, absolute)

-----------------------------------------------------------------------------
(* The scene graph (bpy.data): objects is a sequence of nodes, a node's    *)
(* identity is its index.  link / inst are the custom properties           *)
(* <prefix>_link and <prefix>_instancer (NoProp: the key is absent),       *)
(* weight is <prefix>_weight (0: absent or not a number), coll the         *)
(* collection the node is linked to.  src is history: the node a duplicate *)
(* was copied from (None for a node that is no copy).                      *)

Node(parent, link, inst, weight, coll) ==
    [parent |-> parent, link |-> link, inst |-> inst, weight |-> weight, coll |-> coll,
     src |-> None]

StartLink == 1

\* The instancer strings of the template library: a name, or the text of a
\* production list.
Directives ==
    [iA    |-> [isList |-> FALSE, name |-> "A", ops |-> <<>>],
     iList |-> [isList |-> TRUE, name |-> "",
                ops |-> <<GnScope(<<GnInstance(StrV("A")),
                                   GnRepeat(StrV("x"), <<>>)>>)>>],
     iOk   |-> [isList |-> TRUE, name |-> "",
                ops |-> <<GnInstance(StrV("A"))>>]]

InitObjects ==
    << Node(None, NoProp, NoProp, 0, "S"),     \* 1: the start object
       Node(None, NoProp, NoProp, 0, "A"),     \* 2: template A, no weight
       Node(2, "L", NoProp, 0, "A"),           \* 3:   link L
       Node(3, "L", NoProp, 0, "A"),           \* 4:     nested link L
       Node(None, NoProp, NoProp, 3, "A"),     \* 5: template A, weight 3
       Node(5, "LM", NoProp, 0, "A"),          \* 6:   link LM
       Node(None, NoProp, NoProp, 0, "B"),     \* 7: template B
       Node(7, NoProp, "iA", 0, "B"),          \* 8:   leaf instancer "A"
       Node(None, NoProp, NoProp, 0, "C"),     \* 9: template C
       Node(9, NoProp, "iList", 0, "C"),       \* 10:  leaf instancer "[...]"
       Node(None, NoProp, NoProp, 0, "K"),     \* 11: template K
       Node(11, NoProp, "iOk", 0, "K"),        \* 12:  leaf instancer "[...]"
       Node(None, NoProp, NoProp, 0, "T"),     \* 13: template T
       Node(13, "L", NoProp, 0, "T"),          \* 14:  link L
       Node(13, "LM", NoProp, 0, "T") >>       \* 15:  link LM

\* bpy.data.collections
Collections == {"S", "A", "B", "C", "K", "T", "Z"}

\* the characters of the names and patterns in use
Chars(s) ==
    CASE s = "LM" -> <<"L", "M">>
      [] s = "" -> <<>>
      [] OTHER -> <<s>>

\* re.compile(pattern).match(name): a match at the start of name
re_match(pattern, name) ==
    IF pattern = ".*" THEN TRUE
    ELSE LET p == Chars(pattern)
             n == Chars(name)
         IN Len(p) <= Len(n) /\ SubSeq(n, 1, Len(p)) = p

RECURSIVE SeqFilterIdx(_, _, _)
\* the indices 1..Len(objs) from k on whose node has the given parent, in order
SeqFilterIdx(objs, parent, k) ==
    IF k > Len(objs) THEN <<>>
    ELSE (IF objs[k].parent = parent THEN <<k>> ELSE <<>>)
         \o SeqFilterIdx(objs, parent, k + 1)

\* node.children
Children(objs, node) == SeqFilterIdx(objs, node, 1)

RECURSIVE Descends(_, _, _)
\* whether node n lies strictly below root
Descends(objs, n, root) ==
    LET p == objs[n].parent IN
    IF p = None THEN FALSE ELSE p = root \/ Descends(objs, p, root)

RECURSIVE SubtreeOf(_, _, _)
\* the nodes below the kids from k on, each followed by its own subtree
SubtreeOf(objs, kids, k) ==
    IF k > Len(kids) THEN <<>>
    ELSE <<kids[k]>> \o SubtreeOf(objs, Children(objs, kids[k]), 1)
         \o SubtreeOf(objs, kids, k + 1)

IndexOf(seq, x) == CHOOSE i \in 1..Len(seq) : seq[i] = x

\* bpy.ops.object.select_grouped(CHILDREN_RECURSIVE) + bpy.ops.object.duplicate()
\* followed by move_hierarchy_to_link: the copies are appended, the copy of the
\* root is parented to `parent` and the hierarchy is linked to its collection.
Duplicate(objs, root, parent) ==
    LET d == <<root>> \o SubtreeOf(objs, Children(objs, root), 1)
        n == Len(objs)
    IN objs \o [k \in 1..Len(d) |->
                  [objs[d[k]] EXCEPT
                      !.parent = IF k = 1 THEN parent
                                 ELSE n + IndexOf(d, objs[d[k]].parent),
                      !.coll = objs[parent].coll,
                      !.src = d[k]]]

RECURSIVE LinksOfKids(_, _, _, _)
\* DslContext._get_links_recursive, over the children kids[k..]
LinksOfKids(objs, kids, k, pattern) ==
    IF k > Len(kids) THEN <<>>
    ELSE (LET child == kids[k] IN
          IF objs[child].link # NoProp
          THEN IF re_match(pattern, objs[child].link)
               THEN <<[name |-> objs[child].link, link |-> child]>>
               ELSE <<>>
          ELSE LinksOfKids(objs, Children(objs, child), 1, pattern))
         \o LinksOfKids(objs, kids, k + 1, pattern)

\* a search that also descends below link-tagged nodes
_get_links_recursive_deep(objs, node, pattern) ==
    LET d == SubtreeOf(objs, Children(objs, node), 1)
        hits == SelectSeq(d, LAMBDA k : objs[k].link # NoProp
                                        /\ re_match(pattern, objs[k].link))
    IN [i \in 1..Len(hits) |-> [name |-> objs[hits[i]].link, link |-> hits[i]]]

_get_links_recursive(objs, node, pattern) ==
    LinksOfKids(objs, Children(objs, node), 1, pattern)

RECURSIVE LinkParentFrom(_, _)
\* the loop of get_link_parent: the highest ancestor, from parent up, that is
\* a root or lies directly below a node with a link or instancer property
LinkParentFrom(objs, parent) ==
    LET next_parent == objs[parent].parent IN
    IF next_parent = None \/ objs[next_parent].link # NoProp
                         \/ objs[next_parent].inst # NoProp
    THEN parent
    ELSE LinkParentFrom(objs, next_parent)

\* DslContext.get_link_parent
get_link_parent(objs, link) ==
    IF objs[link].parent = None THEN None ELSE LinkParentFrom(objs, objs[link].parent)

RECURSIVE LeavesOf(_, _, _)
\* DslContext._get_leaf_instancers_recursive, over the nodes[k..]
LeavesOf(objs, nodes, k) ==
    IF k > Len(nodes) THEN <<>>
    ELSE (LET node == nodes[k] IN
          IF objs[node].inst # NoProp /\ Len(Children(objs, node)) = 0
          THEN <<[dir |-> objs[node].inst, node |-> node]>>
          ELSE LeavesOf(objs, Children(objs, node), 1))
         \o LeavesOf(objs, nodes, k + 1)

-----------------------------------------------------------------------------
(* DslContext.  cur_obj_aliases is None (isNone) or a dict, kept as the    *)
(* sequence of its items in insertion order.  A world matrix is named by   *)
(* the node it was read from.  cur_location / cur_rotation / cur_scale are *)
(* one component of the vectors.                                           *)

NoAliases == [isNone |-> TRUE, items |-> <<>>]
Aliases(items) == [isNone |-> FALSE, items |-> items]

\* DslContext.__init__
DslContext(rand_state, start_link) ==
    [rand_state |-> rand_state,
     cur_obj |-> None,
     cur_obj_aliases |-> NoAliases,
     cur_link |-> start_link,
     cur_link_matrix |-> start_link,
     cur_location |-> 0,
     cur_rotation |-> 0,
     cur_scale |-> 1,
     definitions |-> <<>>,
     export_captures |-> <<>>,
     scopes |-> <<>>,
     generated_objects |-> <<>>,
     errors |-> <<>>]

\* DslContext.add_error
add_error(c, error) == [c EXCEPT !.errors = Append(@, error)]

\* a check that never reports the recorded errors
check_for_errors_never(c) == FALSE

\* DslContext.check_for_errors
check_for_errors(c) == Len(c.errors) > 0

\* DslContext.add_generated_object
add_generated_object(c, obj) ==
    [c EXCEPT !.generated_objects = Append(@, obj)]

\* DslContext._reset_transform
_reset_transform(c) ==
    [c EXCEPT !.cur_location = 0, !.cur_rotation = 0, !.cur_scale = 1]

\* DslContext.set_current_object
set_current_object(c, obj) ==
    [c EXCEPT !.cur_obj = obj, !.cur_obj_aliases = NoAliases, !.cur_link = None]

\* DslContext.set_current_link
set_current_link(c, link) ==
    _reset_transform([c EXCEPT !.cur_link = link,
                               !.cur_link_matrix = link,
                               !.cur_obj = None,
                               !.cur_obj_aliases = NoAliases])

RECURSIVE MatchingAliases(_, _, _)
\* the loop over self.cur_obj_aliases in get_matching_links
MatchingAliases(items, k, pattern) ==
    IF k > Len(items) THEN <<>>
    ELSE (IF re_match(pattern, items[k].name) THEN <<items[k]>> ELSE <<>>)
         \o MatchingAliases(items, k + 1, pattern)

\* truth value of self.cur_obj_aliases: None and the empty dict are false
AliasesTruthy(aliases) == ~aliases.isNone /\ Len(aliases.items) > 0

\* a lookup that also searches below the link under the cursor
get_matching_links_underLink(c, objs, pattern, node) ==
    IF node # None THEN _get_links_recursive(objs, node, pattern)
    ELSE IF AliasesTruthy(c.cur_obj_aliases)
         THEN MatchingAliases(c.cur_obj_aliases.items, 1, pattern)
    ELSE IF c.cur_obj # None
         THEN _get_links_recursive(objs, c.cur_obj, pattern)
    ELSE IF c.cur_link # None
         THEN _get_links_recursive(objs, c.cur_link, pattern)
    ELSE <<>>

\* DslContext.get_matching_links
get_matching_links(c, objs, pattern, node) ==
    IF node # None THEN _get_links_recursive(objs, node, pattern)
    ELSE IF AliasesTruthy(c.cur_obj_aliases)
         THEN MatchingAliases(c.cur_obj_aliases.items, 1, pattern)
    ELSE IF c.cur_obj # None
         THEN _get_links_recursive(objs, c.cur_obj, pattern)
    ELSE <<>>

\* DslContext.get_leaf_instancers (None is the empty list: the caller only
\* iterates over it)
get_leaf_instancers(c, objs) ==
    IF c.cur_obj # None THEN LeavesOf(objs, <<c.cur_obj>>, 1) ELSE <<>>

RECURSIVE FirstNamed(_, _, _)
\* the loop of move_to_link: the first pair whose name equals name, or None
FirstNamed(links, k, name) ==
    IF k > Len(links) THEN None
    ELSE IF links[k].name = name THEN links[k].link
    ELSE FirstNamed(links, k + 1, name)

\* DslContext.move_to_link
move_to_link(c, objs, name) ==
    LET link == FirstNamed(get_matching_links(c, objs, name, None), 1, name)
    IN IF link # None THEN set_current_link(c, link) ELSE c

\* DslContext.set_definition: self.definitions[name] = sequence
set_definition(c, name, sequence) ==
    [c EXCEPT !.definitions =
        IF \E k \in 1..Len(@) : @[k].name = name
        THEN [k \in 1..Len(@) |->
                 IF @[k].name = name THEN [name |-> name, seq |-> sequence]
                 ELSE @[k]]
        ELSE Append(@, [name |-> name, seq |-> sequence])]

HasDefinition(c, name) == \E k \in 1..Len(c.definitions) : c.definitions[k].name = name

\* DslContext.get_definition, for a name that is defined
get_definition(c, name) ==
    c.definitions[CHOOSE k \in 1..Len(c.definitions) : c.definitions[k].name = name].seq

\* DslContext.push_scope
push_scope(c) ==
    [c EXCEPT !.scopes = Append(@,
        [cur_obj |-> c.cur_obj,
         cur_obj_aliases |-> c.cur_obj_aliases,
         cur_link |-> c.cur_link,
         cur_link_matrix |-> c.cur_link_matrix,
         cur_location |-> c.cur_location,
         cur_rotation |-> c.cur_rotation,
         cur_scale |-> c.cur_scale])]

\* DslContext.pop_scope
pop_scope(c) ==
    LET top == c.scopes[Len(c.scopes)] IN
    [c EXCEPT !.scopes = SubSeq(@, 1, Len(@) - 1),
              !.cur_obj = top.cur_obj,
              !.cur_obj_aliases = top.cur_obj_aliases,
              !.cur_link = top.cur_link,
              !.cur_link_matrix = top.cur_link_matrix,
              !.cur_location = top.cur_location,
              !.cur_rotation = top.cur_rotation,
              !.cur_scale = top.cur_scale]

\* DslContext.push_define_export_capture.  `created` is history, not program
\* state: every object an instancing created while the frame was on the stack.
push_define_export_capture(c) ==
    [c EXCEPT !.export_captures =
        Append(@, [object |-> None, aliases |-> <<>>, created |-> <<>>])]

\* self.aliases[alias] = link on a dict kept as its items
DictSet(items, alias, link) ==
    IF \E k \in 1..Len(items) : items[k].name = alias
    THEN [k \in 1..Len(items) |->
             IF items[k].name = alias THEN [name |-> alias, link |-> link]
             ELSE items[k]]
    ELSE Append(items, [name |-> alias, link |-> link])

\* an export that records the alias in every active capture frame
define_link_export_all(c, alias) ==
    [c EXCEPT !.export_captures =
        [k \in 1..Len(@) |->
            [@[k] EXCEPT !.aliases = DictSet(@, alias, c.cur_link)]]]

\* DslContext.define_link_export
define_link_export(c, alias) ==
    LET n == Len(c.export_captures) IN
    IF n > 0
    THEN [c EXCEPT !.export_captures[n].aliases = DictSet(@, alias, c.cur_link)]
    ELSE c

\* a pop that leaves cur_link set beside the captured object
pop_define_export_capture_keepLink(c) ==
    LET n == Len(c.export_captures)
        top == c.export_captures[n]
        c1 == [c EXCEPT !.export_captures = SubSeq(@, 1, n - 1)]
    IN IF top.object # None
       THEN [c1 EXCEPT !.cur_obj = top.object,
                       !.cur_obj_aliases = Aliases(top.aliases)]
       ELSE c1

\* a pop that forgets the captured aliases
pop_define_export_capture_noAliases(c) ==
    LET n == Len(c.export_captures)
        top == c.export_captures[n]
        c1 == [c EXCEPT !.export_captures = SubSeq(@, 1, n - 1)]
    IN IF top.object # None
       THEN [c1 EXCEPT !.cur_obj = top.object,
                       !.cur_obj_aliases = Aliases(<<>>),
                       !.cur_link = None]
       ELSE c1

\* a pop without the `if obj != None` test
pop_define_export_capture_always(c) ==
    LET n == Len(c.export_captures)
        top == c.export_captures[n]
        c1 == [c EXCEPT !.export_captures = SubSeq(@, 1, n - 1)]
    IN [c1 EXCEPT !.cur_obj = top.object,
                  !.cur_obj_aliases = Aliases(top.aliases),
                  !.cur_link = None]

\* DslContext.pop_define_export_capture
pop_define_export_capture(c) ==
    LET n == Len(c.export_captures)
        top == c.export_captures[n]
        c1 == [c EXCEPT !.export_captures = SubSeq(@, 1, n - 1)]
    IN IF top.object # None
       THEN [c1 EXCEPT !.cur_obj = top.object,
                       !.cur_obj_aliases = Aliases(top.aliases),
                       !.cur_link = None]
       ELSE c1

\* a notify without the `cap['object'] == None` test
notify_instance_created_overwrite(c, obj) ==
    LET n == Len(c.export_captures) IN
    [c EXCEPT !.export_captures =
        [k \in 1..n |->
            [@[k] EXCEPT
                !.object = IF k = n THEN obj ELSE @,
                !.created = Append(@, [obj |-> obj, top |-> (k = n)])]]]

\* DslContext.notify_instance_created (and the history of every frame)
notify_instance_created(c, obj) ==
    LET n == Len(c.export_captures) IN
    [c EXCEPT !.export_captures =
        [k \in 1..n |->
            [@[k] EXCEPT
                !.object = IF k = n /\ @ = None THEN obj ELSE @,
                !.created = Append(@, [obj |-> obj, top |-> (k = n)])]]]

-----------------------------------------------------------------------------
(* Gn*.prepare: the result is the return value (ok) and the context.       *)

RECURSIVE prepare(_, _), prepare_items(_, _, _)

\* `for item in self.sequence: if not item.prepare(ctx): return False`; seq
\* is the sequence afterwards, its GnStatic values resolved by their prepare
prepare_items(c, seq, k) ==
    IF k > Len(seq) THEN [ok |-> TRUE, c |-> c, exc |-> FALSE, seq |-> seq]
    ELSE Only({
            IF r.exc \/ ~r.ok
            THEN [ok |-> r.ok, c |-> r.c, exc |-> r.exc,
                  seq |-> [seq EXCEPT ![k] = r.op]]
            ELSE prepare_items(r.c, [seq EXCEPT ![k] = r.op], k + 1) :
                    r \in {prepare(c, seq[k])} })

\* the loop over self.sequence in the prepare of the operation o
prepare_sequence(c, o) ==
    Only({
            [ok |-> r.ok, c |-> r.c, exc |-> r.exc, op |-> [o EXCEPT !.seq = r.seq]] :
                    r \in {prepare_items(c, o.seq, 1)} })

\* `ctx.add_error(error); return False` in the prepare of the operation o
prepare_failed(c, o, error) ==
    [ok |-> FALSE, c |-> add_error(c, error), exc |-> FALSE, op |-> o]

\* Gn*.prepare: ok is the value returned, exc whether the call raised, op the
\* operation object afterwards
prepare(c, op) ==
    CASE op.op = "Define" ->
            IF op.arg.v # "str"
            THEN prepare_failed(c, op, "GnDefine: name of definition must be string literal")
            ELSE Only({
                    IF r.exc \/ ~r.ok THEN r
                    ELSE [r EXCEPT !.c = set_definition(r.c, op.arg.s, r.op.seq)] :
                    r \in {prepare_sequence(c, op)} })
      [] op.op \in {"ExportLink", "Instance", "CopyParentLinkChildren",
                     "CreateLink", "Link"} ->
            Only({
                    [ok |-> pv.ok, c |-> pv.c, exc |-> pv.exc,
                     op |-> [op EXCEPT !.arg = pv.value]] :
                    pv \in {prepare_value(c, op.arg)} })
      [] op.op = "Scope" ->
            prepare_sequence(c, op)
      [] op.op = "Repeat" ->
            Only({
                    IF pv.exc \/ ~pv.ok
                    THEN [ok |-> pv.ok, c |-> pv.c, exc |-> pv.exc,
                          op |-> [op EXCEPT !.arg = pv.value]]
                    ELSE prepare_sequence(pv.c, [op EXCEPT !.arg = pv.value]) :
                    pv \in {prepare_value(c, op.arg)} })
      [] op.op = "EachLink" ->
            IF op.arg.v # "str"
            THEN prepare_failed(c, op, "GnEachLink: search pattern must be string literal")
            ELSE prepare_sequence(c, op)
      [] op.op = "Maybe" ->
            Only({
                    IF pv.exc
                    THEN [ok |-> FALSE, c |-> pv.c, exc |-> TRUE,
                          op |-> [op EXCEPT !.arg = pv.value]]
                    ELSE IF ~pv.ok
                    THEN prepare_failed(pv.c, [op EXCEPT !.arg = pv.value],
                                        "GnMaybe: ratio is invalid.")
                    ELSE prepare_sequence(pv.c, [op EXCEPT !.arg = pv.value]) :
                    pv \in {prepare_value(c, op.arg)} })
      [] op.op = "Move" ->
            [ok |-> TRUE, c |-> c, exc |-> FALSE, op |-> op]

-----------------------------------------------------------------------------
(* The interpreter as a machine: m.c the context, m.objs the scene, m.stk  *)
(* the call stack, m.ret the value the last evaluate_production returned,  *)
(* m.exc whether a Python exception is propagating.                        *)
(*                                                                         *)
(* Frames: "prod" evaluate_production, "scope" GnScope.execute, "repeat"   *)
(* GnRepeat.execute, "each" GnEachLink.execute, "maybe" GnMaybe.execute,   *)
(* "define" create_instance running a definition, "inst" create_instance   *)
(* expanding the leaf instancers.  entry is the context at the call, isDef *)
(* whether a create_instance call resolved its name to a definition, at    *)
(* (history) the context when the current leaf instancer was taken up.     *)

Frame(kind, id, seq, entry) ==
    [kind |-> kind, id |-> id, seq |-> seq, i |-> 1, ph |-> "", n |-> 0,
     links |-> <<>>, leaves |-> <<>>, name |-> "", isList |-> TRUE,
     isDef |-> FALSE, entry |-> entry, at |-> entry]

Top(stk) == stk[Len(stk)]

Push(m, f) == [m EXCEPT !.stk = Append(@, f), !.nid = @ + 1]

Pop(m) == [m EXCEPT !.stk = SubSeq(@, 1, Len(@) - 1)]

SetTop(m, f) == [m EXCEPT !.stk[Len(m.stk)] = f]

Raise(m) == [m EXCEPT !.exc = TRUE]

LinkOpError == "Expected to be in an operation under a direct link."
InstanceOpError == "Expected to be in an operation under a direct geometry instance."

\* DslOp.assert_link_op
assert_link_op(c) == c.cur_link # None

\* DslOp.assert_instance_op
assert_instance_op(c) == c.cur_obj # None

\* the top-level (parentless) objects of a collection, in order
RECURSIVE src_objects(_, _, _)
src_objects(objs, name, k) ==
    IF k > Len(objs) THEN <<>>
    ELSE (IF objs[k].coll = name /\ objs[k].parent = None THEN <<k>> ELSE <<>>)
         \o src_objects(objs, name, k + 1)

\* `if type(weight) not in [int, float]: weight = 1.0`
WeightOf(objs, candidate) ==
    IF objs[candidate].weight = 0 THEN 1 ELSE objs[candidate].weight

RECURSIVE SumWeights(_, _, _)
SumWeights(objs, cands, k) ==
    IF k > Len(cands) THEN 0
    ELSE WeightOf(objs, cands[k]) + SumWeights(objs, cands, k + 1)

\* a comparison that also accepts a cumulative weight equal to the threshold
ExceedsThresh_orEqual(weight_sum, rand, total) ==
    weight_sum * RandMod >= rand * total

\* weight_sum > weight_thresh, where weight_thresh = (rand / RandMod) * total
ExceedsThresh(weight_sum, rand, total) == weight_sum * RandMod > rand * total

RECURSIVE PickFrom(_, _, _, _, _, _)
\* the selection loop of create_instance: the first candidate whose cumulative
\* weight exceeds the threshold, or None
PickFrom(objs, cands, k, weight_sum, rand, total) ==
    IF k > Len(cands) THEN None
    ELSE LET sum == weight_sum + WeightOf(objs, cands[k]) IN
         IF ExceedsThresh(sum, rand, total) THEN cands[k]
         ELSE PickFrom(objs, cands, k + 1, sum, rand, total)

\* the weighted pick of create_instance, for a non-empty candidate list
SelectTemplate(objs, cands, rand) ==
    LET picked == PickFrom(objs, cands, 1, 0, rand, SumWeights(objs, cands, 1))
    IN IF picked = None THEN cands[Len(cands)] ELSE picked

\* DslContext.create_instance up to the loop over the leaf instancers: the
\* definition branch pushes the capture and runs the sequence in a "define"
\* frame; the collection branch duplicates a template; then the "inst" frame
\* expands the leaf instancers of the current object.
create_instance(m, name) ==
    LET c == m.c IN
    IF HasDefinition(c, name)
    THEN Push([m EXCEPT !.c = push_define_export_capture(c)],
              [Frame("define", m.nid, get_definition(c, name), c) EXCEPT
                  !.name = name, !.isDef = TRUE])
    ELSE LET cands == IF name \in Collections THEN src_objects(m.objs, name, 1) ELSE <<>>
             m1 == IF Len(cands) > 0
                   THEN LET rand == RandNext(c.rand_state)
                            selected_obj == SelectTemplate(m.objs, cands, rand)
                            copy == Len(m.objs) + 1
                            c1 == [c EXCEPT !.rand_state = rand]
                        IN [m EXCEPT
                              !.objs = Duplicate(m.objs, selected_obj, c.cur_link),
                              !.c = notify_instance_created(
                                        add_generated_object(
                                            set_current_object(c1, copy), copy), copy)]
                   ELSE m
         IN Push(m1, [Frame("inst", m.nid, <<>>, c) EXCEPT
                         !.name = name, !.ph = "head",
                         !.leaves = get_leaf_instancers(m1.c, m1.objs)])

\* a CreateLink that moves the cursor to the marker it made
create_link_at_marker(m) ==
    IF m.c.cur_obj = None
    THEN [m EXCEPT !.c = add_error(m.c, "Warning: Ignored creating a link without an active object.")]
    ELSE [m EXCEPT !.objs = Append(@, Node(m.c.cur_obj, NoProp, NoProp, 0, "S")),
                   !.c.cur_obj = Len(m.objs) + 1]

\* a list that also holds the markers made by CreateLink
create_link_generated(m) ==
    IF m.c.cur_obj = None
    THEN [m EXCEPT !.c = add_error(m.c, "Warning: Ignored creating a link without an active object.")]
    ELSE [m EXCEPT !.objs = Append(@, Node(m.c.cur_obj, NoProp, NoProp, 0, "S")),
                   !.c = add_generated_object(@, Len(m.objs) + 1)]

\* DslContext.create_link: an empty is added and parented to the current object
create_link(m) ==
    IF m.c.cur_obj = None
    THEN [m EXCEPT !.c = add_error(m.c, "Warning: Ignored creating a link without an active object.")]
    ELSE [m EXCEPT !.objs = Append(@, Node(m.c.cur_obj, NoProp, NoProp, 0, "S"))]

\* a loop that runs once more than count
range_len_plusOne(count) == IF count > 0 THEN count + 1 ELSE 1

\* len(range(count)): the iterations of `for _ in range(count)`
range_len(count) == IF count > 0 THEN count ELSE 0

RECURSIVE copy_children(_, _, _, _)
\* the loop `for gch in child.children` of GnCopyParentLinkChildren.execute:
\* each child is duplicated with its subtree, the copy is parented to
\* dest_link and added to the generated objects
copy_children(m, children, k, dest_link) ==
    IF k > Len(children) THEN m
    ELSE copy_children(
            [m EXCEPT !.objs = Duplicate(@, children[k], dest_link),
                      !.c = add_generated_object(@, Len(m.objs) + 1)],
            children, k + 1, dest_link)

\* GnCopyParentLinkChildren.execute after its assert_link_op and the
\* evaluation of the link name
copy_parent_link_children(m, src_link_name) ==
    LET dest_link == m.c.cur_link
        parent == get_link_parent(m.objs, dest_link)
        links == IF parent = None THEN <<>>
                 ELSE get_matching_links(m.c, m.objs, src_link_name, parent)
    IN IF Len(links) > 0
       THEN copy_children(m, Children(m.objs, links[1].link), 1, dest_link)
       ELSE m

\* Gn*.execute up to its first nested call; m.stk holds the caller's frame,
\* already advanced past op.  A call beyond the recursion limit raises
\* RecursionError.
Exec(m, op) ==
    LET c == m.c
        e == evaluate_value(c, op.arg)
    IN
    IF Len(m.stk) >= RecursionLimit THEN Raise(m)
    ELSE
    CASE op.op = "Define" -> m
      [] op.op = "ExportLink" ->
            IF ~assert_link_op(c) THEN [m EXCEPT !.c = add_error(c, LinkOpError)]
            ELSE IF e.exc THEN Raise([m EXCEPT !.c = e.c])
            ELSE [m EXCEPT !.c = define_link_export(e.c, e.val.s)]
      [] op.op = "Scope" ->
            Push([m EXCEPT !.c = push_scope(c)], Frame("scope", m.nid, op.seq, c))
      [] op.op = "Repeat" ->
            IF e.exc THEN Raise([m EXCEPT !.c = e.c])
            ELSE IF e.val.v # "int" THEN Raise([m EXCEPT !.c = e.c])
            ELSE Push([m EXCEPT !.c = e.c],
                      [Frame("repeat", m.nid, op.seq, c) EXCEPT
                          !.i = Len(op.seq) + 1,
                          !.n = range_len(e.val.n)])
      [] op.op = "Instance" ->
            IF ~assert_link_op(c) THEN [m EXCEPT !.c = add_error(c, LinkOpError)]
            ELSE IF e.exc THEN Raise([m EXCEPT !.c = e.c])
            ELSE create_instance([m EXCEPT !.c = e.c], e.val.s)
      [] op.op = "CopyParentLinkChildren" ->
            IF ~assert_link_op(c) THEN [m EXCEPT !.c = add_error(c, LinkOpError)]
            ELSE IF e.exc THEN Raise([m EXCEPT !.c = e.c])
            ELSE copy_parent_link_children([m EXCEPT !.c = e.c], e.val.s)
      [] op.op = "CreateLink" ->
            IF ~assert_instance_op(c) THEN [m EXCEPT !.c = add_error(c, InstanceOpError)]
            ELSE IF e.exc THEN Raise([m EXCEPT !.c = e.c])
            ELSE create_link([m EXCEPT !.c = e.c])
      [] op.op = "Link" ->
            IF e.exc THEN Raise([m EXCEPT !.c = e.c])
            ELSE [m EXCEPT !.c = move_to_link(e.c, m.objs, e.val.s)]
      [] op.op = "EachLink" ->
            IF ~assert_instance_op(c) THEN [m EXCEPT !.c = add_error(c, InstanceOpError)]
            ELSE Push(m, [Frame("each", m.nid, op.seq, c) EXCEPT
                             !.ph = "head",
                             !.links = get_matching_links(c, m.objs, op.arg.s, None)])
      [] op.op = "Maybe" ->
            LET rand == RandNext(c.rand_state)
                m1 == [m EXCEPT !.c.rand_state = rand]
            IN IF op.arg.v # "int" THEN Raise(m1)
               ELSE IF rand <= op.arg.n THEN Push(m1, Frame("maybe", m.nid, op.seq, c))
               ELSE m1
      [] op.op = "Move" ->
            [m EXCEPT !.c.cur_location = IF op.flag THEN op.arg.n ELSE @ + op.arg.n]

\* the index of the innermost evaluate_production frame
InnermostProd(stk) ==
    CHOOSE k \in 1..Len(stk) :
        /\ stk[k].kind = "prod"
        /\ \A j \in (k + 1)..Len(stk) : stk[j].kind # "prod"

\* the `except:` clause of evaluate_production: the exception unwinds the
\* calls above the innermost evaluate_production, which records it and
\* returns False
Except(m) ==
    [m EXCEPT !.stk = SubSeq(@, 1, InnermostProd(@) - 1),
              !.c = add_error(@, "Exception while evaluating rule production"),
              !.ret = FALSE,
              !.exc = FALSE]

Run(m, op) ==
    LET r == Exec(m, op) IN IF r.exc THEN Except(r) ELSE r

\* `return value` from evaluate_production
Return(m, value) == [Pop(m) EXCEPT !.ret = value]

-----------------------------------------------------------------------------
(* The rule files of the model: every operation list of at most MaxTopLen  *)
(* operations of Pool, and a text that is not a list.                      *)

DefD == GnDefine(StrV("D"), <<GnInstance(StrV("A")), GnLink(StrV("L")),
                              GnExportLink(StrV("e"))>>)
DefD2 == GnDefine(StrV("D2"), <<GnInstance(StrV("D")), GnLink(StrV("e")),
                                GnInstance(StrV("A"))>>)
DefN == GnDefine(StrV("N"), <<GnInstance(StrV("B"))>>)
DefE == GnDefine(StrV("E"), <<GnMove(IntV(1), FALSE), GnLink(StrV("L")),
                              GnExportLink(StrV("e"))>>)

Pool ==
    { GnInstance(StrV("A")),
      GnInstance(StrV("B")),
      GnInstance(StrV("C")),
      GnInstance(StrV("K")),
      GnInstance(StrV("D")),
      GnLink(StrV("L")),
      GnCreateLink(StrV("n")),
      GnExportLink(StrV("e")),
      GnMove(IntV(1), FALSE),
      DefD,
      GnRepeat(GnRange(5, 1), <<>>),
      GnRepeat(GnRange(1, 2), <<GnInstance(StrV("A")), GnLink(StrV("L"))>>),
      GnRepeat(IntV(1), <<DefN, GnInstance(StrV("N"))>>),
      GnRepeat(IntV(1), <<DefD, DefD2, GnInstance(StrV("D2"))>>),
      GnScope(<<GnCreateLink(StrV("n")), GnInstance(StrV("A")), GnLink(StrV("L")),
                GnMove(IntV(2), TRUE)>>),
      GnScope(<<DefE, GnInstance(StrV("E")), GnRepeat(StrV("x"), <<>>)>>),
      GnScope(<<GnInstance(StrV("C"))>>),
      GnEachLink(StrV("L"), <<GnMove(IntV(1), FALSE), GnInstance(StrV("A"))>>),
      GnMaybe(IntV(8), <<GnInstance(StrV("A")), GnLink(StrV("L"))>>) }

OpLists == UNION { [1..k -> Pool] : k \in 0..MaxTopLen }

\* the body of the operations of ValuePool
MoveOne == <<GnMove(IntV(1), FALSE)>>

\* operations whose argument is a GnWeighted or a GnStatic
ValuePool ==
    { GnRepeat(GnWeighted(<<Pair(1, IntV(1)), Pair(1, IntV(2))>>), MoveOne),
      GnRepeat(GnWeighted(<<Pair(1, NoneV), Pair(1, IntV(1))>>), MoveOne),
      GnRepeat(GnWeighted(<<>>), MoveOne),
      GnRepeat(GnWeighted(<<Tuple(1, 1, NoneV)>>), MoveOne),
      GnRepeat(GnWeighted(<<Pair(1, IntV(1)), NoTuple(1)>>), MoveOne),
      GnRepeat(IntV(2), <<GnRepeat(GnStatic(GnRange(0, 1)), MoveOne)>>),
      GnRepeat(IntV(2),
               <<GnRepeat(GnWeighted(<<Pair(1, GnStatic(GnRange(0, 1)))>>),
                          MoveOne)>>) }

\* the operation lists that end with an operation of ValuePool
ValueLists ==
    { Append(ops, v) : ops \in UNION { [1..k -> Pool] : k \in 0..(MaxTopLen - 1) },
                       v \in ValuePool }

\* a definition that instances itself
DefR == GnDefine(StrV("R"), <<GnInstance(StrV("R"))>>)
\* a definition named like the template collection A
DefA == GnDefine(StrV("A"), <<GnMove(IntV(1), FALSE)>>)
\* a definition that creates a marker under the instance it makes
DefM == GnDefine(StrV("M"), <<GnInstance(StrV("B")), GnCreateLink(StrV("n"))>>)
\* an instance of template A followed by a move to its link L
AtLinkL == GnRepeat(IntV(1), <<GnInstance(StrV("A")), GnLink(StrV("L"))>>)

\* rule files for recursion, name precedence, a Maybe whose ratio is a
\* DslValue, GnCopyParentLinkChildren, and an EachLink whose body fails in a
\* leaf instancer
CaseLists ==
    { <<DefR, GnInstance(StrV("R"))>>,
      <<DefA, GnInstance(StrV("A"))>>,
      <<DefM, GnInstance(StrV("M"))>>,
      <<GnRepeat(IntV(1), <<GnCreateLink(StrV("n")), GnInstance(StrV("K"))>>)>>,
      <<GnMaybe(GnRange(8, 8), MoveOne)>>,
      <<GnMove(IntV(1), FALSE), GnMove(IntV(2), TRUE)>>,
      <<GnCopyParentLinkChildren(StrV("L"))>>,
      <<AtLinkL, GnCopyParentLinkChildren(StrV("L"))>>,
      <<AtLinkL, GnCopyParentLinkChildren(StrV("Z"))>>,
      <<GnInstance(StrV("A")), GnCopyParentLinkChildren(StrV("L"))>>,
      <<GnInstance(StrV("A")), GnEachLink(StrV("L"), <<GnInstance(StrV("C"))>>)>>,
      <<GnInstance(StrV("T")),
        GnEachLink(StrV("L"), <<GnMove(IntV(1), FALSE), GnInstance(StrV("A"))>>)>> }

Texts == { [isList |-> TRUE, ops |-> ops] :
             ops \in OpLists \cup ValueLists \cup CaseLists }
         \cup { [isList |-> FALSE, ops |-> <<>>] }

-----------------------------------------------------------------------------
(* The steps *)

NoOp == Op("", IntV(0), <<>>, FALSE)

Cur == [c |-> ctx, objs |-> objects, stk |-> stack, ret |-> ret, nid |-> nid,
        exc |-> FALSE]

\* the frames of stk that are no longer in stk2: the calls that ended
Exited(stk, stk2) ==
    { stk[k] : k \in { j \in 1..Len(stk) :
                         \A h \in 1..Len(stk2) : stk2[h].id # stk[j].id } }

\* the steps of the loops of GnRepeat.execute and GnEachLink.execute
LoopActs == {"RepeatHead", "RepeatStep", "EachHead", "EachStep", "EachIterEnd"}

\* history: a step of a loop, taken from the frame f: the position in the
\* sequence, the iterations and the links still to come
Event(act, f) == [act |-> act, id |-> f.id, i |-> f.i, n |-> f.n, links |-> f.links]

\* a step of the interpreter to the machine state m2; act names the step, op
\* is the operation whose execute it started, raised whether it raised
StepTo(act, m2, op, raised) ==
    /\ ctx' = m2.c
    /\ objects' = m2.objs
    /\ stack' = m2.stk
    /\ ret' = m2.ret
    /\ nid' = m2.nid
    /\ last' = [last EXCEPT !.act = act, !.pre = ctx, !.op = op,
                            !.raised = raised,
                            !.depth = Len(stack),
                            !.nobjs = Len(objects),
                            !.exits = Exited(stack, m2.stk),
                            !.prepared =
                                IF act = "EvalPrepare" /\ Len(stack) = 1
                                THEN @ \cup {Top(stack).i} ELSE @,
                            !.executed =
                                IF act = "EvalExecute" /\ Len(stack) = 1
                                THEN @ \cup {Top(stack).i} ELSE @,
                            !.failed =
                                IF act = "EvalCheck" /\ Len(stack) = 1
                                   /\ Len(ctx.errors) > 0
                                THEN @ \cup {Top(stack).i} ELSE @]
    /\ hist' = [hist EXCEPT !.draws = IF m2.c.rand_state # ctx.rand_state
                                       THEN Append(@, m2.c.rand_state) ELSE @,
                            !.trace = IF act \in LoopActs
                                      THEN Append(@, Event(act, Top(stack)))
                                      ELSE @]
    /\ UNCHANGED <<tree, prog, seed, pc, sc_node, scope_context, budget,
                   prop_obj_array, prop_random_state>>

\* the step that calls op.execute from the frame on top, advanced to f
ExecStep(act, f, op) ==
    StepTo(act, Run(SetTop(Cur, f), op), op, Exec(SetTop(Cur, f), op).exc)

Running(kind) == pc = "eval" /\ stack # <<>> /\ Top(stack).kind = kind

\* the rule files the node is executed on more than once
RunTexts ==
    { [isList |-> TRUE, ops |-> <<op>>] :
        op \in { GnInstance(StrV("A")),
                 GnRepeat(GnRange(1, 2), <<GnInstance(StrV("A")), GnLink(StrV("L"))>>),
                 GnExportLink(StrV("e")) } }

\* the generator stands alone: no tree of for-loops
NoTree == [nodes |-> <<>>, stk |-> <<>>]

\* The node after ScNode.reset(True), before its first execution; the rule
\* file and the Seed input stay as they are.
Init ==
    /\ \/ prog \in Texts /\ budget = 1
       \/ prog \in RunTexts /\ budget = MaxExec
    /\ seed \in 0..MaxSeed
    /\ pc = "idle"
    /\ sc_node = [first_time |-> TRUE, scope_context_id |-> -1, node_error |-> FALSE]
    /\ scope_context = [id |-> 0]
    /\ hist = [began |-> 0, seeded |-> FALSE, draws |-> <<>>,
               end_state |-> NoState, ref |-> <<>>, trace |-> <<>>]
    /\ ctx = DslContext(RandomState(seed), StartLink)
    /\ objects = InitObjects
    /\ stack = <<>>
    /\ ret = FALSE
    /\ nid = 1
    /\ prop_obj_array = <<>>
    /\ prop_random_state = NoState
    /\ last = [act |-> "Init", pre |-> ctx, op |-> NoOp, raised |-> FALSE,
               depth |-> 0, nobjs |-> Len(InitObjects), exits |-> {},
               prepared |-> {}, executed |-> {}, failed |-> {}]
    /\ tree = NoTree

\* whether the node is not inside ScNode.execute
Idle == pc \in {"idle", "done", "raised"}

\* ScNode.reset(True)
Reset ==
    /\ Idle
    /\ ~(sc_node.first_time /\ sc_node.scope_context_id = -1)
    /\ sc_node' = [sc_node EXCEPT !.first_time = TRUE, !.scope_context_id = -1]
    /\ pc' = "idle"
    /\ hist' = [hist EXCEPT !.began = 0]
    /\ last' = [last EXCEPT !.act = "Reset", !.pre = ctx, !.op = NoOp, !.exits = {}]
    /\ UNCHANGED <<tree, prog, seed, scope_context, budget, ctx, objects, stack, ret,
                   nid, prop_obj_array, prop_random_state>>

\* ScEndForLoop.functionality: increment_scope_context_id() before the next
\* iteration executes the node
IncrementScope ==
    /\ Idle /\ budget > 0
    /\ scope_context.id = sc_node.scope_context_id
    /\ scope_context' = [id |-> scope_context.id + 1]
    /\ last' = [last EXCEPT !.act = "IncrementScope", !.pre = ctx, !.op = NoOp,
                            !.exits = {}]
    /\ UNCHANGED <<tree, prog, seed, pc, sc_node, budget, hist, ctx, objects, stack, ret,
                   nid, prop_obj_array, prop_random_state>>

\* ScNode.execute(scope_context, forced) up to the call of post_execute;
\* inputs_ok is init_in(forced) and not error_condition().  pre_execute
\* empties prop_obj_array; functionality does nothing.
NodeExecute ==
    /\ Idle /\ budget > 0
    /\ \E forced \in BOOLEAN, inputs_ok \in BOOLEAN :
          LET id_changed == sc_node.scope_context_id # scope_context.id
              node1 == [sc_node EXCEPT !.scope_context_id = scope_context.id]
          IN IF sc_node.first_time \/ forced \/ id_changed
             THEN IF inputs_ok
                  THEN /\ sc_node' = [node1 EXCEPT !.node_error = TRUE]
                       /\ pc' = "exec"
                       /\ prop_obj_array' = <<>>
                  ELSE /\ sc_node' = [node1 EXCEPT !.node_error = TRUE,
                                                !.first_time = FALSE]
                       /\ pc' = "idle"
                       /\ UNCHANGED prop_obj_array
             ELSE /\ sc_node' = node1
                  /\ UNCHANGED <<pc, prop_obj_array>>
    /\ budget' = budget - 1
    /\ last' = [last EXCEPT !.act = "NodeExecute", !.pre = ctx, !.op = NoOp,
                            !.exits = {}]
    /\ UNCHANGED <<tree, prog, seed, scope_context, hist, ctx, objects, stack, ret,
                   nid, prop_random_state>>

\* `for child in start_obj.children: remove_object(child, hierarchy=True)`:
\* every node of the scene is below the start object or was there from the
\* beginning
ClearChildren(objs, start_obj) ==
    SelectSeq(objs, LAMBDA n : n \in { InitObjects[k] : k \in 1..Len(InitObjects) })

\* a stream that is restored from prop_random_state whenever one was saved
InitialRandState_restore(first_time) ==
    IF prop_random_state = NoState THEN RandomState(seed) ELSE prop_random_state

\* `rs = RandomState(int(seed)); if not self.first_time:
\* rs.set_state(eval(self.prop_random_state))`
InitialRandState(first_time) ==
    IF first_time THEN RandomState(seed) ELSE prop_random_state

\* ScGenerate.post_execute up to the call of evaluate_production; eval of
\* the empty prop_random_state raises SyntaxError
PostExecuteBegin ==
    /\ pc = "exec"
    /\ hist' = [hist EXCEPT
                  !.began = @ + 1,
                  !.seeded = sc_node.first_time,
                  !.draws = <<>>,
                  !.trace = <<>>,
                  !.ref = IF hist.began > 0 \/ hist.end_state = NoState
                             \/ ~hist.seeded THEN @
                          ELSE <<[draws |-> hist.draws,
                                  count |-> Len(ctx.generated_objects)]>>]
    /\ IF InitialRandState(sc_node.first_time) = NoState
       THEN /\ pc' = "raised"
            /\ UNCHANGED <<ctx, objects, stack, nid>>
            /\ last' = [last EXCEPT !.act = "PostExecuteBegin", !.pre = ctx,
                                    !.op = NoOp, !.exits = {}]
       ELSE /\ pc' = "eval"
            /\ ctx' = DslContext(InitialRandState(sc_node.first_time), StartLink)
            /\ objects' = ClearChildren(objects, StartLink)
            /\ stack' = <<[Frame("prod", nid, prog.ops, ctx') EXCEPT
                              !.ph = "parse", !.isList = prog.isList]>>
            /\ nid' = nid + 1
            /\ last' = [last EXCEPT !.act = "PostExecuteBegin", !.pre = ctx,
                                    !.op = NoOp, !.raised = FALSE, !.exits = {},
                                    !.prepared = {}, !.executed = {},
                                    !.failed = {}]
    /\ UNCHANGED <<tree, prog, seed, sc_node, scope_context, budget, ret,
                   prop_obj_array, prop_random_state>>

\* evaluate_production: the is_production_list test and eval(text)
EvalParse ==
    /\ Running("prod") /\ Top(stack).ph = "parse"
    /\ StepTo("EvalParse",
              IF ~Top(stack).isList
              THEN Return([Cur EXCEPT !.c = add_error(@, "Rule production is not a list")],
                          FALSE)
              ELSE SetTop(Cur, [Top(stack) EXCEPT !.ph = "prepare"]),
              NoOp, FALSE)

\* evaluate_production: op.prepare(self) and the check after it
EvalPrepare ==
    /\ Running("prod") /\ Top(stack).ph = "prepare"
    /\ Top(stack).i <= Len(Top(stack).seq)
    /\ LET f == Top(stack)
           r == prepare(ctx, f.seq[f.i])
           m == [Cur EXCEPT !.c = r.c]
       IN StepTo("EvalPrepare",
                 IF r.exc THEN Except(m)
                 ELSE IF check_for_errors(r.c) THEN Return(m, FALSE)
                 ELSE SetTop(m, [f EXCEPT !.ph = "execute", !.seq[f.i] = r.op]),
                 NoOp, r.exc)

\* evaluate_production: op.execute(self)
EvalExecute ==
    /\ Running("prod") /\ Top(stack).ph = "execute"
    /\ LET f == Top(stack)
       IN ExecStep("EvalExecute", [f EXCEPT !.ph = "check"], f.seq[f.i])

\* evaluate_production: the check after op.execute
EvalCheck ==
    /\ Running("prod") /\ Top(stack).ph = "check"
    /\ LET f == Top(stack)
       IN StepTo("EvalCheck",
                 IF check_for_errors(ctx) THEN Return(Cur, FALSE)
                 ELSE SetTop(Cur, [f EXCEPT !.ph = "prepare", !.i = @ + 1]),
                 NoOp, FALSE)

\* evaluate_production: the loop is over, return True
EvalDone ==
    /\ Running("prod") /\ Top(stack).ph = "prepare"
    /\ Top(stack).i > Len(Top(stack).seq)
    /\ StepTo("EvalDone", Return(Cur, TRUE), NoOp, FALSE)

\* GnScope.execute: the next item of the sequence
ScopeStep ==
    /\ Running("scope") /\ Top(stack).i <= Len(Top(stack).seq)
    /\ LET f == Top(stack)
       IN ExecStep("ScopeStep", [f EXCEPT !.i = @ + 1], f.seq[f.i])

\* GnScope.execute: ctx.pop_scope()
ScopeExit ==
    /\ Running("scope") /\ Top(stack).i > Len(Top(stack).seq)
    /\ StepTo("ScopeExit", Pop([Cur EXCEPT !.c = pop_scope(@)]), NoOp, FALSE)

\* GnRepeat.execute: the next iteration of `for _ in range(count)`
RepeatHead ==
    /\ Running("repeat") /\ Top(stack).i > Len(Top(stack).seq)
    /\ LET f == Top(stack)
       IN StepTo("RepeatHead",
                 IF f.n > 0 THEN SetTop(Cur, [f EXCEPT !.n = @ - 1, !.i = 1])
                 ELSE Pop(Cur),
                 NoOp, FALSE)

\* GnRepeat.execute: the next item of the sequence
RepeatStep ==
    /\ Running("repeat") /\ Top(stack).i <= Len(Top(stack).seq)
    /\ LET f == Top(stack)
       IN ExecStep("RepeatStep", [f EXCEPT !.i = @ + 1], f.seq[f.i])

\* GnEachLink.execute: the next link: push_scope and set_current_link
EachHead ==
    /\ Running("each") /\ Top(stack).ph = "head"
    /\ LET f == Top(stack)
       IN StepTo("EachHead",
                 IF f.links # <<>>
                 THEN SetTop([Cur EXCEPT !.c = set_current_link(push_scope(@),
                                                                Head(f.links).link)],
                             [f EXCEPT !.links = Tail(@), !.ph = "body", !.i = 1])
                 ELSE Pop(Cur),
                 NoOp, FALSE)

\* GnEachLink.execute: the next item of the sequence
EachStep ==
    /\ Running("each") /\ Top(stack).ph = "body"
    /\ Top(stack).i <= Len(Top(stack).seq)
    /\ LET f == Top(stack)
       IN ExecStep("EachStep", [f EXCEPT !.i = @ + 1], f.seq[f.i])

\* GnEachLink.execute: ctx.pop_scope() at the end of an iteration
EachIterEnd ==
    /\ Running("each") /\ Top(stack).ph = "body"
    /\ Top(stack).i > Len(Top(stack).seq)
    /\ StepTo("EachIterEnd",
              SetTop([Cur EXCEPT !.c = pop_scope(@)], [Top(stack) EXCEPT !.ph = "head"]),
              NoOp, FALSE)

\* GnMaybe.execute: the next item of the sequence
MaybeStep ==
    /\ Running("maybe") /\ Top(stack).i <= Len(Top(stack).seq)
    /\ LET f == Top(stack)
       IN ExecStep("MaybeStep", [f EXCEPT !.i = @ + 1], f.seq[f.i])

\* GnMaybe.execute returns
MaybeExit ==
    /\ Running("maybe") /\ Top(stack).i > Len(Top(stack).seq)
    /\ StepTo("MaybeExit", Pop(Cur), NoOp, FALSE)

\* create_instance: the next item of the definition's sequence
DefineStep ==
    /\ Running("define") /\ Top(stack).i <= Len(Top(stack).seq)
    /\ LET f == Top(stack)
       IN ExecStep("DefineStep", [f EXCEPT !.i = @ + 1], f.seq[f.i])

\* create_instance: pop_define_export_capture() and get_leaf_instancers()
DefineExit ==
    /\ Running("define") /\ Top(stack).i > Len(Top(stack).seq)
    /\ LET c == pop_define_export_capture(ctx)
       IN StepTo("DefineExit",
                 SetTop([Cur EXCEPT !.c = c],
                        [Top(stack) EXCEPT !.kind = "inst", !.ph = "head",
                                           !.leaves = get_leaf_instancers(c, objects)]),
                 NoOp, FALSE)

\* create_instance: the next leaf instancer: push_scope, set_current_link and
\* the evaluation of its string; or the return when none is left
InstHead ==
    /\ Running("inst") /\ Top(stack).ph = "head"
    /\ LET f == Top(stack)
       IN IF f.leaves = <<>>
          THEN StepTo("InstHead", Pop(Cur), NoOp, FALSE)
          ELSE LET inst == Head(f.leaves)
                   d == Directives[inst.dir]
                   m == SetTop([Cur EXCEPT !.c = set_current_link(push_scope(@), inst.node)],
                               [f EXCEPT !.leaves = Tail(@), !.ph = "ret",
                                         !.isList = d.isList, !.at = ctx])
               IN StepTo("InstHead",
                         IF Len(stack) >= RecursionLimit THEN Except(m)
                         ELSE IF d.isList
                         THEN Push(m, [Frame("prod", m.nid, d.ops, m.c) EXCEPT !.ph = "parse"])
                         ELSE create_instance(m, d.name),
                         NoOp, FALSE)

\* create_instance: back from a leaf instancer: the error of a failed list,
\* and pop_scope()
InstRet ==
    /\ Running("inst") /\ Top(stack).ph = "ret"
    /\ LET f == Top(stack)
           c == IF f.isList /\ ~ret
                THEN add_error(ctx, "Could not evaluate instancer on object")
                ELSE ctx
       IN StepTo("InstRet",
                 SetTop([Cur EXCEPT !.c = pop_scope(c)], [f EXCEPT !.ph = "head"]),
                 NoOp, FALSE)

\* a post_execute that reports dsl_ctx.generated_objects whatever
\* evaluate_production returned
PostExecuteEnd_reportAll ==
    /\ pc = "eval" /\ stack = <<>>
    /\ pc' = "done"
    /\ prop_obj_array' = ctx.generated_objects
    /\ prop_random_state' = ctx.rand_state
    /\ sc_node' = [sc_node EXCEPT !.node_error = FALSE, !.first_time = FALSE]
    /\ hist' = [hist EXCEPT !.end_state = ctx.rand_state]
    /\ last' = [last EXCEPT !.act = "PostExecuteEnd", !.pre = ctx, !.exits = {}]
    /\ UNCHANGED <<tree, prog, seed, scope_context, budget, ctx, objects, stack, ret, nid>>

\* ScGenerate.post_execute after evaluate_production returned
PostExecuteEnd ==
    /\ pc = "eval" /\ stack = <<>>
    /\ pc' = "done"
    /\ prop_obj_array' = IF ret THEN ctx.generated_objects ELSE <<>>
    /\ prop_random_state' = ctx.rand_state
    /\ sc_node' = [sc_node EXCEPT !.node_error = FALSE, !.first_time = FALSE]
    /\ hist' = [hist EXCEPT !.end_state = ctx.rand_state]
    /\ last' = [last EXCEPT !.act = "PostExecuteEnd", !.pre = ctx, !.exits = {}]
    /\ UNCHANGED <<tree, prog, seed, scope_context, budget, ctx, objects, stack, ret, nid>>

Next ==
    \/ Reset
    \/ IncrementScope
    \/ NodeExecute
    \/ PostExecuteBegin
    \/ EvalParse
    \/ EvalPrepare
    \/ EvalExecute
    \/ EvalCheck
    \/ EvalDone
    \/ ScopeStep
    \/ ScopeExit
    \/ RepeatHead
    \/ RepeatStep
    \/ EachHead
    \/ EachStep
    \/ EachIterEnd
    \/ MaybeStep
    \/ MaybeExit
    \/ DefineStep
    \/ DefineExit
    \/ InstHead
    \/ InstRet
    \/ PostExecuteEnd

Spec == Init /\ [][Next]_vars

-----------------------------------------------------------------------------
TypeOK ==
    /\ pc \in {"idle", "exec", "eval", "done", "raised"}
    /\ budget \in 0..MaxExec
    /\ prop_random_state \in {NoState} \cup 0..(RandMod - 1)
    /\ \A n \in (Len(InitObjects) + 1)..Len(objects) : Descends(objects, n, StartLink)
    /\ ctx.cur_obj \in 0..Len(objects)
    /\ ctx.cur_link \in 0..Len(objects)

-----------------------------------------------------------------------------
(* Properties *)

TopOps == 1..Len(prog.ops)

BadRange == GnRepeat(GnRange(5, 1), <<>>)

\* C1: in one top-level evaluation no operation's execute runs before every
\* top-level operation has been prepared, and once a prepare has recorded an
\* error no operation of the sequence has been executed: no scene node was
\* created and the cursor is the start link.
C1_PrepareAllBeforeExecute ==
    /\ last.executed # {} => last.prepared = TopOps
    /\ (last.act = "EvalPrepare" /\ last.depth = 1
            /\ Len(ctx.errors) > Len(last.pre.errors))
        => /\ last.executed = {}
           /\ objects = InitObjects
           /\ ctx.cur_link = StartLink

\* C2 as stated: when the check after a top-level operation's execute found a
\* recorded error, every top-level operation of the list has been executed by
\* the end of the run.
C2_SiblingsStillExecuted ==
    (pc = "done" /\ last.failed # {}) => last.executed = TopOps

\* C2 as amended: when the check after a top-level operation's execute finds a
\* recorded error, evaluate_production returns False at once: no later
\* top-level operation is prepared or executed.  Inside a nested sequence
\* (Scope, Repeat, EachLink, Maybe, definition) an operation that records an
\* error without raising ends no call: the sequence goes on with its next item.
C2_TopLevelStopsNestedContinues ==
    /\ \A i \in last.failed :
          /\ \A j \in TopOps : j > i => j \notin last.prepared \cup last.executed
          /\ stack = <<>> /\ ret = FALSE
    /\ (/\ last.act \in {"ScopeStep", "RepeatStep", "EachStep", "MaybeStep", "DefineStep"}
        /\ ~last.raised
        /\ Len(ctx.errors) > Len(last.pre.errors))
        => /\ last.exits = {}
           /\ Len(stack) >= last.depth

\* C2 witness: a run ended after the first of two top-level operations
\* recorded an error when executed
C2_Witness ==
    pc = "done" /\ 1 \in last.failed /\ Len(prog.ops) = 2

\* C3: whenever the error list is non-empty at the end of a run, the driver
\* reports zero generated objects.
C3_ErrorsReportNothing ==
    (pc = "done" /\ Len(ctx.errors) > 0) => prop_obj_array = <<>>

\* C3 witness: a run whose second operation is the invalid Range(5,1), after
\* a valid sibling that generated an object
C3_Witness ==
    /\ pc = "done"
    /\ Len(prog.ops) = 2 /\ prog.ops[2] = BadRange
    /\ Len(ctx.errors) > 0
    /\ Len(ctx.generated_objects) > 0
    /\ prop_obj_array = <<>>

Cursor(c) == <<c.cur_obj, c.cur_obj_aliases, c.cur_link>>

Transform(c) == <<c.cur_link_matrix, c.cur_location, c.cur_rotation, c.cur_scale>>

IsLink(c) == c.cur_link # None /\ c.cur_obj = None /\ c.cur_obj_aliases.isNone

IsObject(c) == c.cur_obj # None /\ c.cur_link = None /\ c.cur_obj_aliases.isNone

IsObjectWithAliases(c) ==
    c.cur_obj # None /\ c.cur_link = None /\ ~c.cur_obj_aliases.isNone

\* C4: in every reachable context state the cursor is exactly one of Link,
\* Object and ObjectWithAliases.
C4_CursorExactlyOne ==
    Cardinality({k \in {"Link", "Object", "ObjectWithAliases"} :
                    CASE k = "Link" -> IsLink(ctx)
                      [] k = "Object" -> IsObject(ctx)
                      [] k = "ObjectWithAliases" -> IsObjectWithAliases(ctx)}) = 1

\* C4 witness: pop_define_export_capture turned a Link cursor into an
\* ObjectWithAliases cursor
C4_Witness ==
    last.act = "DefineExit" /\ IsLink(last.pre) /\ IsObjectWithAliases(ctx)

\* C5: when the execute of a Scope, an EachLink or an Instance ends, normally
\* or by an exception, the scope stack is the one it was called with; and the
\* pop that ends an EachLink iteration or a leaf-instancer expansion leaves
\* the scope stack the construct was called with.
C5_ScopeStackBalanced ==
    /\ \A f \in last.exits :
          f.kind \in {"scope", "each", "define", "inst"}
              => ctx.scopes = f.entry.scopes
    /\ last.act \in {"EachIterEnd", "InstRet"}
          => ctx.scopes = Top(stack).entry.scopes

\* C6: when a Scope, Repeat, EachLink or Maybe ends, normally or by an
\* exception, the cursor and the local transform are those it was called with.
C6_CursorRestored ==
    \A f \in last.exits :
        f.kind \in {"scope", "repeat", "each", "maybe"}
            => /\ Cursor(ctx) = Cursor(f.entry)
               /\ Transform(ctx) = Transform(f.entry)

\* the capture frame popped by the last step, a DefineExit
PoppedCapture == last.pre.export_captures[Len(last.pre.export_captures)]

\* C7: popping the capture frame of a definition sets the cursor to
\* ObjectWithAliases(captured object, captured aliases) when an object was
\* captured, and otherwise leaves the cursor as it was.
C7_PopCapture ==
    last.act = "DefineExit" =>
        IF PoppedCapture.object # None
        THEN Cursor(ctx) = <<PoppedCapture.object, Aliases(PoppedCapture.aliases), None>>
        ELSE Cursor(ctx) = Cursor(last.pre)

\* C7 witness: a capture frame with an object and an exported alias is popped
C7_Witness ==
    /\ last.act = "DefineExit"
    /\ PoppedCapture.object # None
    /\ PoppedCapture.aliases # <<>>
    /\ IsObjectWithAliases(ctx)

RECURSIVE FirstCreated(_, _, _)
\* the first object of the history `created` from k on; with topOnly, the
\* first one created while the frame was the innermost
FirstCreated(created, k, topOnly) ==
    IF k > Len(created) THEN None
    ELSE IF topOnly => created[k].top THEN created[k].obj
    ELSE FirstCreated(created, k + 1, topOnly)

\* C8 as stated: the object a capture frame holds when it is popped is the
\* first object an instancing created between its push and its pop, objects
\* created through a nested definition instance included.
C8_FirstInExtent ==
    last.act = "DefineExit" =>
        PoppedCapture.object = FirstCreated(PoppedCapture.created, 1, FALSE)

\* C8 as amended: at any time the object a capture frame holds is the first
\* object an instancing created while that frame was the innermost capture
\* frame (None when there is none); later instancings do not overwrite it, and
\* objects created inside a nested definition instance are not captured by it.
C8_FirstWhileInnermost ==
    \A k \in 1..Len(ctx.export_captures) :
        ctx.export_captures[k].object =
            FirstCreated(ctx.export_captures[k].created, 1, TRUE)

\* C8 witness: a second object is created while a frame that already holds
\* one is the innermost
C8_Witness ==
    \E k \in 1..Len(ctx.export_captures) :
        LET cap == ctx.export_captures[k] IN
        /\ cap.object # None
        /\ \E i, j \in 1..Len(cap.created) :
              i < j /\ cap.created[i].top /\ cap.created[j].top

RECURSIVE HasCreate(_, _)
\* whether the sequence, from k on, holds an Instance or CreateLink at any depth
HasCreate(seq, k) ==
    IF k > Len(seq) THEN FALSE
    ELSE \/ seq[k].op \in {"Instance", "CreateLink"}
         \/ HasCreate(seq[k].seq, 1)
         \/ HasCreate(seq, k + 1)

\* C9: when the instancing of a definition whose body holds no Instance or
\* create operation ends, the cursor is the cursor it was called with and the
\* generated-objects list is unchanged.
C9_EmptyDefinitionNoEffect ==
    \A f \in last.exits :
        (f.kind \in {"define", "inst"} /\ f.isDef /\ ~HasCreate(f.seq, 1))
            => /\ Cursor(ctx) = Cursor(f.entry)
               /\ ctx.generated_objects = f.entry.generated_objects

\* C9 witness: such an instancing returns after its body exported an alias
C9_Witness ==
    /\ last.act = "InstHead"
    /\ \E f \in last.exits :
          /\ f.isDef /\ ~HasCreate(f.seq, 1)
          /\ \E k \in 1..Len(f.seq) : f.seq[k].op = "ExportLink"

\* the links of an alias map
AliasLinks(aliases) == { aliases.items[k].link : k \in 1..Len(aliases.items) }

\* C10: while the cursor is ObjectWithAliases, the link MoveToLink moves to
\* and the links EachLink iterates over are entries of the alias map.
C10_AliasMapOnly ==
    /\ (last.op.op = "Link" /\ IsObjectWithAliases(last.pre)
            /\ Cursor(ctx) # Cursor(last.pre))
        => ctx.cur_link \in AliasLinks(last.pre.cur_obj_aliases)
    /\ (last.op.op = "EachLink" /\ IsObjectWithAliases(last.pre))
        => \A k \in 1..Len(Top(stack).links) :
              Top(stack).links[k].link \in AliasLinks(last.pre.cur_obj_aliases)

-----------------------------------------------------------------------------
(* Link lookup *)

\* the patterns the rule files and the interpreter search with
Patterns == {"L", "LM", "e", ".*"}

RECURSIVE LinkBetween(_, _, _)
\* whether a link-tagged node lies strictly between node n and its ancestor root
LinkBetween(objs, n, root) ==
    LET p == objs[n].parent IN
    IF p = None \/ p = root THEN FALSE
    ELSE objs[p].link # NoProp \/ LinkBetween(objs, p, root)

\* the nodes a search can start from: the object or link under the cursor
SearchRoots == {ctx.cur_obj, ctx.cur_link, last.pre.cur_obj} \ {None}

\* C11: the recursive descendant search, from the node under the cursor and
\* for any pattern, returns only link-tagged descendants with no other
\* link-tagged node strictly between them and the search root; and the link
\* MoveToLink moves to from an object without aliases has no link between it
\* and the object, so a nested link named like an outer one is not reached.
C11_NoLinkBelowLink ==
    /\ \A node \in SearchRoots : \A pattern \in Patterns :
          LET res == _get_links_recursive(objects, node, pattern) IN
          \A i \in 1..Len(res) :
              /\ objects[res[i].link].link # NoProp
              /\ Descends(objects, res[i].link, node)
              /\ ~LinkBetween(objects, res[i].link, node)
    /\ (last.op.op = "Link" /\ last.pre.cur_obj # None
            /\ ~AliasesTruthy(last.pre.cur_obj_aliases) /\ ctx.cur_link # None)
        => /\ Descends(objects, ctx.cur_link, last.pre.cur_obj)
           /\ ~LinkBetween(objects, ctx.cur_link, last.pre.cur_obj)

\* C11 witness: MoveToLink from an object moved the cursor to a link that has
\* a nested link of the same name below it
C11_Witness ==
    /\ last.op.op = "Link" /\ last.pre.cur_obj # None /\ ctx.cur_link # None
    /\ \E k \in 1..Len(objects) :
          /\ objects[k].parent = ctx.cur_link
          /\ objects[k].link = objects[ctx.cur_link].link

\* the links visible from the cursor of c: the alias map if one is active,
\* else the descendant links of the current object or link
VisibleLinks(c, objs) ==
    IF ~c.cur_obj_aliases.isNone THEN c.cur_obj_aliases.items
    ELSE IF c.cur_obj # None THEN _get_links_recursive(objs, c.cur_obj, ".*")
    ELSE _get_links_recursive(objs, c.cur_link, ".*")

\* whether the last step executed a MoveToLink whose name is a string
MovedToLink == last.op.op = "Link" /\ last.op.arg.v = "str" /\ ~last.raised

\* C12: MoveToLink(name) sets the cursor to the first visible link named
\* exactly name, with identity transform and that link's matrix as base, when
\* there is one; otherwise it leaves the cursor and transform unchanged.
C12_MoveToLinkExact ==
    MovedToLink =>
        LET target == FirstNamed(VisibleLinks(last.pre, objects), 1, last.op.arg.s)
        IN IF target # None
           THEN /\ IsLink(ctx) /\ ctx.cur_link = target
                /\ ctx.cur_link_matrix = target
                /\ ctx.cur_location = 0 /\ ctx.cur_rotation = 0
                /\ ctx.cur_scale = 1
           ELSE Cursor(ctx) = Cursor(last.pre)
                /\ Transform(ctx) = Transform(last.pre)

\* whether a link named like the last MoveToLink lies below the link that
\* was under the cursor
LinkBelowCursorLink ==
    /\ MovedToLink /\ IsLink(last.pre)
    /\ FirstNamed(_get_links_recursive(objects, last.pre.cur_link, last.op.arg.s),
                  1, last.op.arg.s) # None

\* C13 as stated: with a Link cursor, MoveToLink(name) moves the cursor to a
\* descendant link named name when one exists.
C13_LinkCursorDescends ==
    LinkBelowCursorLink =>
        /\ IsLink(ctx)
        /\ Descends(objects, ctx.cur_link, last.pre.cur_link)
        /\ objects[ctx.cur_link].link = last.op.arg.s

\* C13 amended: with a Link cursor, MoveToLink(name) searches nothing: the
\* cursor and the transform stay as they were, also when a descendant link
\* named name exists.
C13_LinkCursorNoSearch ==
    (MovedToLink /\ IsLink(last.pre)) =>
        /\ Cursor(ctx) = Cursor(last.pre)
        /\ Transform(ctx) = Transform(last.pre)

\* C13 witness: MoveToLink was executed under a Link cursor that has a
\* descendant link of that name
C13_Witness == LinkBelowCursorLink /\ ctx.cur_link = last.pre.cur_link

-----------------------------------------------------------------------------
(* Weighted selection *)

\* the values rand_state.rand() * RandMod can take
Draws == 0..(RandMod - 1)

\* the weight the claim gives a candidate: its numeric weight, else 1
ClaimedWeight(objs, cand) ==
    IF objs[cand].weight > 0 THEN objs[cand].weight ELSE 1

RECURSIVE CumWeight(_, _, _)
\* the cumulative weight of the first k candidates
CumWeight(objs, cands, k) ==
    IF k = 0 THEN 0
    ELSE CumWeight(objs, cands, k - 1) + ClaimedWeight(objs, cands[k])

\* the candidate the stated rule selects for the draw rand / RandMod: the
\* first whose cumulative weight is strictly greater than r = uniform * total,
\* the last one when there is none
StrictPick(objs, cands, rand) ==
    LET total == CumWeight(objs, cands, Len(cands))
        over == { k \in 1..Len(cands) :
                    CumWeight(objs, cands, k) * RandMod > rand * total }
    IN IF over = {} THEN cands[Len(cands)]
       ELSE cands[CHOOSE k \in over : \A j \in over : k <= j]

\* whether the last step executed Instance(name) for a non-empty template
\* collection that no definition hides
InstancedTemplate ==
    /\ last.op.op = "Instance" /\ last.op.arg.v = "str" /\ ~last.raised
    /\ IsLink(last.pre)
    /\ ~HasDefinition(last.pre, last.op.arg.s)
    /\ last.op.arg.s \in Collections
    /\ Len(src_objects(objects, last.op.arg.s, 1)) > 0

\* C14: when Instance(name) is executed for a template collection, for every
\* draw the template selection returns the candidate of the stated rule
\* (missing weight counts 1, first cumulative weight strictly above r, else
\* the last), which is one of the candidates; and the Instance consumed one
\* draw and duplicated exactly that candidate under the current link.
C14_StrictWeightedPick ==
    /\ InstancedTemplate =>
          LET cands == src_objects(objects, last.op.arg.s, 1) IN
          \A rand \in Draws :
              /\ SelectTemplate(objects, cands, rand) = StrictPick(objects, cands, rand)
              /\ \E k \in 1..Len(cands) :
                    SelectTemplate(objects, cands, rand) = cands[k]
    /\ InstancedTemplate =>
          LET cands == src_objects(objects, last.op.arg.s, 1)
              rand == RandNext(last.pre.rand_state)
              sel == StrictPick(objects, cands, rand)
          IN /\ ctx.rand_state = rand
             /\ IsObject(ctx)
             /\ objects[ctx.cur_obj] =
                   [objects[sel] EXCEPT !.parent = last.pre.cur_link,
                                        !.coll = objects[last.pre.cur_link].coll,
                                        !.src = sel]
             /\ ctx.generated_objects =
                   Append(last.pre.generated_objects, ctx.cur_obj)

\* C14 witness: an Instance drew r exactly equal to the cumulative weight of
\* the first of several candidates and duplicated the next one
C14_Witness ==
    /\ InstancedTemplate
    /\ LET cands == src_objects(objects, last.op.arg.s, 1) IN
       /\ Len(cands) > 1
       /\ CumWeight(objects, cands, 1) * RandMod
              = ctx.rand_state * CumWeight(objects, cands, Len(cands))
       /\ objects[ctx.cur_obj].weight = objects[cands[2]].weight
       /\ objects[cands[2]].weight # objects[cands[1]].weight

\* whether value is a GnWeighted over a non-empty list of (weight, value)
\* pairs
IsPairList(value) ==
    /\ value.v = "weighted" /\ Len(value.w) > 0
    /\ \A k \in 1..Len(value.w) : value.w[k].isTuple /\ value.w[k].len = 2

\* whether the last step started the execute of a Repeat whose count is such
\* a GnWeighted (the count is evaluated first)
EvaluatedWeighted == last.op.op = "Repeat" /\ IsPairList(last.op.arg)

RECURSIVE CumPairs(_, _)
\* the cumulative weight of the first k pairs
CumPairs(weights, k) ==
    IF k = 0 THEN 0 ELSE CumPairs(weights, k - 1) + weights[k].weight

\* the value the stated rule returns for the draw rand / RandMod: that of the
\* first pair whose cumulative weight is >= r = total * uniform; that of the
\* last pair when there is none or when the chosen value is null
ClaimedWeightedValue(weights, rand) ==
    LET total == CumPairs(weights, Len(weights))
        reach == { k \in 1..Len(weights) :
                     CumPairs(weights, k) * RandMod >= total * rand }
        last_value == weights[Len(weights)].value
    IN IF reach = {} THEN last_value
       ELSE LET k == CHOOSE k \in reach : \A j \in reach : k <= j IN
            IF weights[k].value = NoneV THEN last_value ELSE weights[k].value

\* C15: whenever a GnWeighted over a non-empty list of pairs is evaluated,
\* then for the draw made and for every other draw evaluate does not fail and
\* returns the value of the first pair whose cumulative weight reaches r, or
\* the last pair's value when there is none or the chosen value is null.
C15_WeightedNeverFails ==
    EvaluatedWeighted =>
        \A state \in Draws :
            LET r == GnWeighted_evaluate([last.pre EXCEPT !.rand_state = state],
                                         last.op.arg)
            IN /\ ~r.exc
               /\ r.val = ClaimedWeightedValue(last.op.arg.w, RandNext(state))
               /\ \E k \in 1..Len(last.op.arg.w) : r.val = last.op.arg.w[k].value

\* template candidates that carry the weights of a weights list: candidate k
\* is node k
WeightNodes(weights) ==
    [k \in 1..Len(weights) |-> Node(None, NoProp, NoProp, weights[k].weight, "W")]

\* the entry the template selection of create_instance takes for the weights
TemplateIndex(weights, rand) ==
    SelectTemplate(WeightNodes(weights), [k \in 1..Len(weights) |-> k], rand)

\* the entry the selection loop of GnWeighted.evaluate takes for the weights
ValueIndex(weights, rand) ==
    WeightedIndex(weights, 1, 0, rand, TotalWeight(weights, 1))

\* whether r = total * rand / RandMod is exactly the cumulative weight of the
\* first k entries
AtThreshold(weights, rand, k) ==
    CumPairs(weights, k) * RandMod = CumPairs(weights, Len(weights)) * rand

\* C16: for the weights of an evaluated GnWeighted and every draw: when r is
\* exactly the cumulative weight of the first k entries, the Weighted
\* selection takes entry k and the template selection entry k + 1; for every
\* other draw the two take the same entry.
C16_SelectionRulesDiverge ==
    EvaluatedWeighted =>
        LET weights == last.op.arg.w IN
        \A rand \in Draws :
            IF \E k \in 1..(Len(weights) - 1) : AtThreshold(weights, rand, k)
            THEN \A k \in 1..(Len(weights) - 1) :
                    AtThreshold(weights, rand, k) =>
                        /\ ValueIndex(weights, rand) = k
                        /\ TemplateIndex(weights, rand) = k + 1
            ELSE ValueIndex(weights, rand) = TemplateIndex(weights, rand)

\* C16 witness: the count of a Repeat was drawn from a GnWeighted with r
\* exactly at the cumulative weight of the first entry: the Repeat runs that
\* entry's count, the template selection takes the second entry
C16_Witness ==
    /\ EvaluatedWeighted /\ ~last.raised
    /\ Running("repeat")
    /\ ctx.rand_state = RandNext(last.pre.rand_state)
    /\ AtThreshold(last.op.arg.w, ctx.rand_state, 1)
    /\ Top(stack).n = last.op.arg.w[1].value.n
    /\ last.op.arg.w[2].value.n # last.op.arg.w[1].value.n
    /\ TemplateIndex(last.op.arg.w, ctx.rand_state) = 2

\* C17: a GnWeighted whose list is empty or holds an element that is no
\* 2-tuple is refused by prepare, so the execute of an operation never
\* evaluates such a value.
C17_MalformedWeightedRefused ==
    (last.op.op = "Repeat" /\ last.op.arg.v = "weighted") =>
        /\ IsPairList(last.op.arg)
        /\ \A value \in {GnWeighted(<<>>), GnWeighted(<<Tuple(1, 1, NoneV)>>),
                         GnWeighted(<<Pair(1, IntV(1)), NoTuple(1)>>)} :
              LET r == prepare_value(last.pre, value)
              IN ~r.ok /\ Len(r.c.errors) > Len(last.pre.errors)

-----------------------------------------------------------------------------
(* Static values *)

RECURSIVE StaticsOf(_)
\* the GnStatic values that value is or holds in its weights, at any depth
StaticsOf(value) ==
    (IF value.v = "static" THEN {value} ELSE {})
    \cup UNION { StaticsOf(value.w[k].value) : k \in 1..Len(value.w) }
    \cup UNION { StaticsOf(value.of[k]) : k \in 1..Len(value.of) }

\* C18: when the execute of an operation evaluates its argument, every
\* GnStatic in it has been resolved by prepare: its evaluation returns a
\* scalar that is the memoized one and consumes no draw of the random stream.
C18_StaticResolvedAtPrepare ==
    last.op.op = "Repeat" =>
        \A static \in StaticsOf(last.op.arg) :
            LET r == evaluate_value(last.pre, static) IN
            /\ ~r.exc
            /\ ~IsDslValue(static.of[1]) /\ r.val = static.of[1]
            /\ r.c.rand_state = last.pre.rand_state

-----------------------------------------------------------------------------
(* The random stream across executions *)

\* C19: a run of post_execute that started from the Seed input, with the
\* scene cleared and the same rule file, goes through the same random states
\* and generates as many objects as the seeded run before it.
C19_SeededRunsAgree ==
    (pc = "done" /\ hist.seeded /\ hist.ref # <<>>) =>
        /\ hist.draws = hist.ref[1].draws
        /\ Len(ctx.generated_objects) = hist.ref[1].count

\* C19 witness: a second seeded run has ended after drawing from the stream
\* and generating an object
C19_Witness ==
    /\ pc = "done" /\ hist.seeded /\ hist.ref # <<>>
    /\ Len(hist.draws) > 0
    /\ Len(prop_obj_array) > 0

\* C20: the first post_execute after a reset starts from the stream seeded
\* with the Seed input, every later one from the random state the previous
\* post_execute ended with; post_execute never fails to set up the stream.
C20_SeedThenContinue ==
    last.act = "PostExecuteBegin" =>
        /\ pc # "raised"
        /\ IF hist.began = 1
           THEN ctx.rand_state = RandomState(seed)
           ELSE ctx.rand_state = hist.end_state

\* the Max Depth input of the node: its default
in_max_depth == 10

\* the calls of create_instance that are active
InstanceDepth(stk) ==
    Cardinality({ k \in 1..Len(stk) : stk[k].kind \in {"define", "inst"} })

\* C21: recursive instancing stops once Max Depth is exhausted: at no time
\* are more than Max Depth create_instance calls nested in one another.
C21_DepthBounded ==
    InstanceDepth(stack) <= in_max_depth

-----------------------------------------------------------------------------
(* Operations *)

\* the steps that call the execute of an operation
ExecActs == {"EvalExecute", "ScopeStep", "RepeatStep", "EachStep", "MaybeStep",
             "DefineStep"}

\* whether the last step called the execute of an operation of the class
\* kind and the call did not raise
Executed(kind) == last.act \in ExecActs /\ last.op.op = kind /\ ~last.raised

\* Instance of a name that is neither a definition nor a collection with a
\* template
InstanceMiss ==
    /\ Executed("Instance") /\ last.pre.cur_link # None
    /\ ~HasDefinition(last.pre, last.op.arg.s)
    /\ src_objects(objects, last.op.arg.s, 1) = <<>>

\* MoveToLink of a name that no visible link has
LinkMiss ==
    /\ MovedToLink
    /\ FirstNamed(VisibleLinks(last.pre, objects), 1, last.op.arg.s) = None

\* CopyParentLinkChildren whose ancestor or source link is not found
CopyMiss ==
    /\ Executed("CopyParentLinkChildren") /\ last.pre.cur_link # None
    /\ LET parent == get_link_parent(objects, last.pre.cur_link) IN
       \/ parent = None
       \/ _get_links_recursive(objects, parent, last.op.arg.s) = <<>>

\* the error list, the cursor, the scope stack and the generated objects of
\* c are those of c0
SameOutcome(c, c0) ==
    /\ c.errors = c0.errors
    /\ Cursor(c) = Cursor(c0)
    /\ c.scopes = c0.scopes
    /\ c.generated_objects = c0.generated_objects

\* C22: a resolution miss is a silent no-op: an Instance of an unknown name, a
\* MoveToLink of a name no visible link has and a CopyParentLinkChildren
\* whose ancestor or source link is not found leave the error list, the
\* cursor, the scope stack and the generated-objects list unchanged.
C22_MissIsNoOp ==
    (InstanceMiss \/ LinkMiss \/ CopyMiss) => SameOutcome(ctx, last.pre)

\* whether node n is the root of a duplicated hierarchy: a copy whose parent
\* is not the copy of its source's parent
IsDuplicatedRoot(objs, n) ==
    /\ objs[n].src # None
    /\ \/ objs[objs[n].src].parent = None
       \/ objs[objs[n].parent].src # objs[objs[n].src].parent

RECURSIVE DuplicatedRoots(_, _)
\* the roots of the duplicated hierarchies among the nodes from n on, in
\* creation order
DuplicatedRoots(objs, n) ==
    IF n > Len(objs) THEN <<>>
    ELSE (IF IsDuplicatedRoot(objs, n) THEN <<n>> ELSE <<>>)
         \o DuplicatedRoots(objs, n + 1)

IsPrefix(s, t) == Len(s) <= Len(t) /\ SubSeq(t, 1, Len(s)) = s

\* C23: during a run the generated-objects list only grows, and it holds, in
\* creation order, exactly the roots of the hierarchies duplicated by Instance
\* and by CopyParentLinkChildren; a marker made by CreateLink is no copy and
\* is never in it.
C23_GeneratedAreDuplicatedRoots ==
    pc = "eval" =>
        /\ last.act # "PostExecuteBegin"
              => IsPrefix(last.pre.generated_objects, ctx.generated_objects)
        /\ ctx.generated_objects = DuplicatedRoots(objects, 1)
        /\ \A k \in 1..Len(ctx.generated_objects) :
              objects[ctx.generated_objects[k]].src # None

\* C23 witness: CopyParentLinkChildren added the copy of a child to a list
\* that already held the root an Instance duplicated
C23_Witness ==
    /\ pc = "eval" /\ Executed("CopyParentLinkChildren")
    /\ Len(last.pre.generated_objects) > 0
    /\ Len(ctx.generated_objects) > Len(last.pre.generated_objects)

\* whether name is a registered definition of c
Registered(c, name) == \E k \in 1..Len(c.definitions) : c.definitions[k].name = name

\* the template roots of the collection name
Templates(name) ==
    { k \in 1..Len(InitObjects) :
        InitObjects[k].coll = name /\ InitObjects[k].parent = None }

\* C24: Instance(name) without a Link cursor records an error and creates
\* nothing; with a Link cursor and a registered definition named name it runs
\* the definition, also when a template collection has that name, and
\* duplicates no template; and when name resolves to a non-empty template
\* collection, the cursor at the end of the operation is Object(copy), the
\* root the operation created under the link it was called at.
C24_Instance ==
    /\ (Executed("Instance") /\ last.pre.cur_link = None)
        => /\ ctx = add_error(last.pre, LinkOpError)
           /\ Len(objects) = last.nobjs
           /\ Len(stack) = last.depth
    /\ (Executed("Instance") /\ last.pre.cur_link # None
            /\ Registered(last.pre, last.op.arg.s))
        => /\ Top(stack).kind = "define" /\ Len(stack) = last.depth + 1
           /\ Top(stack).seq = get_definition(last.pre, last.op.arg.s)
           /\ Len(objects) = last.nobjs
           /\ ctx.rand_state = last.pre.rand_state
           /\ ctx.generated_objects = last.pre.generated_objects
    /\ last.act = "InstHead" =>
          \A f \in last.exits :
              (f.kind = "inst" /\ ~f.isDef /\ ~Registered(f.entry, f.name)
                  /\ Templates(f.name) # {})
              => /\ IsObject(ctx)
                 /\ ctx.cur_obj =
                       ctx.generated_objects[Len(f.entry.generated_objects) + 1]
                 /\ objects[ctx.cur_obj].src \in Templates(f.name)
                 /\ objects[ctx.cur_obj].parent = f.entry.cur_link

\* the items of an alias map kept as a sequence
Items(aliases) == { aliases[k] : k \in 1..Len(aliases) }

\* C25: ExportLink(alias) executed without a Link cursor records the
\* precondition error and changes no capture frame; with a Link cursor it
\* maps alias to the current link in the innermost capture frame and changes
\* nothing else; with no capture frame active it changes nothing and records
\* no error.
C25_ExportLink ==
    Executed("ExportLink") =>
        LET n == Len(last.pre.export_captures)
            alias == last.op.arg.s
        IN IF last.pre.cur_link = None
           THEN ctx = add_error(last.pre, LinkOpError)
           ELSE IF n = 0 THEN ctx = last.pre
           ELSE /\ Len(ctx.export_captures) = n
                /\ \A k \in 1..(n - 1) :
                      ctx.export_captures[k] = last.pre.export_captures[k]
                /\ LET old == last.pre.export_captures[n]
                       new == ctx.export_captures[n]
                   IN /\ [new EXCEPT !.aliases = <<>>] = [old EXCEPT !.aliases = <<>>]
                      /\ Items(new.aliases) =
                            { a \in Items(old.aliases) : a.name # alias }
                            \cup {[name |-> alias, link |-> last.pre.cur_link]}
                      /\ Len(new.aliases) = Cardinality(Items(new.aliases))
                /\ [ctx EXCEPT !.export_captures = <<>>]
                      = [last.pre EXCEPT !.export_captures = <<>>]

\* C25 witness: an ExportLink executed at a link inside a definition that is
\* instanced from another definition: two capture frames are active
C25_Witness ==
    /\ Executed("ExportLink") /\ last.pre.cur_link # None
    /\ Len(last.pre.export_captures) = 2
    /\ ctx.export_captures[2].aliases # <<>>
    /\ ctx.export_captures[1].aliases = <<>>

\* the steps the loop of the call id took, in order
StepsOf(id) == SelectSeq(hist.trace, LAMBDA e : e.id = id)

\* whether the steps E are those of an EachLink over the links L with a body
\* of len items: for each link, in order, the head of the iteration with that
\* link first among those to come, the items 1..len, and the end of the
\* iteration; then the head that ends the loop
EachPattern(E, L, len) ==
    /\ Len(E) = Len(L) * (len + 2) + 1
    /\ \A k \in 1..Len(L) :
          LET base == (k - 1) * (len + 2) IN
          /\ E[base + 1].act = "EachHead"
          /\ E[base + 1].links = SubSeq(L, k, Len(L))
          /\ \A j \in 1..len :
                E[base + 1 + j].act = "EachStep" /\ E[base + 1 + j].i = j
          /\ E[base + len + 2].act = "EachIterEnd"
    /\ E[Len(E)].act = "EachHead" /\ E[Len(E)].links = <<>>

\* C26: EachLink without an Object cursor records an error and runs nothing;
\* otherwise the links it iterates over are fixed when it is called and match
\* the pattern, the body runs once per link, in order, each time starting
\* with cursor = that link and an identity transform after a push of the
\* scope, and the pop that ends the iteration restores the scope stack and
\* the cursor the EachLink was called with.
C26_EachLink ==
    /\ (Executed("EachLink") /\ last.pre.cur_obj = None)
        => /\ ctx = add_error(last.pre, InstanceOpError)
           /\ Len(stack) = last.depth
    /\ (Executed("EachLink") /\ last.pre.cur_obj # None)
        => /\ ctx = last.pre
           /\ Top(stack).kind = "each" /\ Len(stack) = last.depth + 1
           /\ \A k \in 1..Len(Top(stack).links) :
                 re_match(last.op.arg.s, Top(stack).links[k].name)
    /\ (last.act = "EachHead" /\ last.exits = {})
        => LET e == hist.trace[Len(hist.trace)] IN
           /\ IsLink(ctx) /\ ctx.cur_link = e.links[1].link
           /\ ctx.cur_link_matrix = e.links[1].link
           /\ ctx.cur_location = 0 /\ ctx.cur_rotation = 0 /\ ctx.cur_scale = 1
           /\ Len(ctx.scopes) = Len(last.pre.scopes) + 1
           /\ SubSeq(ctx.scopes, 1, Len(last.pre.scopes)) = last.pre.scopes
    /\ last.act = "EachIterEnd"
        => /\ ctx.scopes = Top(stack).entry.scopes
           /\ Cursor(ctx) = Cursor(Top(stack).entry)
    /\ last.act = "EachHead"
        => \A f \in last.exits :
              LET E == StepsOf(f.id) IN
              EachPattern(E, E[1].links, Len(f.seq))

\* whether the steps E are those of a Repeat of count iterations over a body
\* of len items: for each iteration the head, then the items 1..len in
\* order; then the head that ends the loop
RepeatPattern(E, count, len) ==
    /\ Len(E) = count * (len + 1) + 1
    /\ \A k \in 1..count :
          LET base == (k - 1) * (len + 1) IN
          /\ E[base + 1].act = "RepeatHead" /\ E[base + 1].n = count - k + 1
          /\ \A j \in 1..len :
                E[base + 1 + j].act = "RepeatStep" /\ E[base + 1 + j].i = j
    /\ E[Len(E)].act = "RepeatHead" /\ E[Len(E)].n = 0

\* C27: Repeat(count, body) evaluates count once when it is called: a literal
\* count leaves the context unchanged and a Range count advances the random
\* stream by one draw and yields a number within its bounds; the body items
\* then run in order exactly count times; no scope is pushed or popped, the
\* step from one iteration to the next and the return leave the context as
\* the body left it.
C27_Repeat ==
    /\ Executed("Repeat")
        => /\ Top(stack).kind = "repeat" /\ Len(stack) = last.depth + 1
           /\ Top(stack).seq = last.op.seq
           /\ StepsOf(Top(stack).id) = <<>>
           /\ CASE last.op.arg.v = "int" ->
                      /\ ctx = last.pre
                      /\ Top(stack).n = IF last.op.arg.n > 0 THEN last.op.arg.n ELSE 0
                [] last.op.arg.v = "range" ->
                      /\ ctx = [last.pre EXCEPT
                                   !.rand_state = RandNext(last.pre.rand_state)]
                      /\ Top(stack).n \in last.op.arg.lo..last.op.arg.hi
                [] OTHER ->
                      /\ ctx.scopes = last.pre.scopes
                      /\ Cursor(ctx) = Cursor(last.pre)
                      /\ Transform(ctx) = Transform(last.pre)
    /\ last.act = "RepeatHead"
        => /\ ctx = last.pre
           /\ \A f \in last.exits :
                 LET E == StepsOf(f.id) IN RepeatPattern(E, E[1].n, Len(f.seq))

\* C27 witness: a Repeat whose Range count came out as 2 returns; its second
\* iteration started at the link the first one had moved to, and the cursor
\* is not the one the Repeat was called with
C27_Witness ==
    /\ last.act = "RepeatHead"
    /\ \E f \in last.exits :
          /\ StepsOf(f.id)[1].n = 2 /\ Len(f.seq) = 2
          /\ Cursor(ctx) # Cursor(f.entry)
          /\ Len(ctx.generated_objects) = Len(f.entry.generated_objects) + 2
          /\ objects[ctx.generated_objects[Len(ctx.generated_objects)]].parent
                # f.entry.cur_link

\* whether the last step called the execute of a Maybe
CalledMaybe == last.act \in ExecActs /\ last.op.op = "Maybe"

\* whether the call of the last step entered the body of its operation
EnteredBody ==
    /\ Len(stack) = last.depth + 1
    /\ Top(stack).kind = "maybe" /\ Top(stack).seq = last.op.seq

\* C28: Maybe(ratio, body) accepts a ratio that is a literal or a Value: its
\* call does not raise; it draws one sample from the random stream and, for
\* a literal ratio, changes nothing else in the context and enters its body
\* if and only if the sample is at most the ratio.
C28_Maybe ==
    CalledMaybe /\ last.op.arg.v \in {"int", "range", "weighted", "static"}
        => /\ ~last.raised
           /\ last.op.arg.v = "int"
                => /\ ctx = [last.pre EXCEPT
                                !.rand_state = RandNext(last.pre.rand_state)]
                   /\ EnteredBody <=> ctx.rand_state <= last.op.arg.n
                   /\ ~EnteredBody => Len(stack) = last.depth

\* whether the last step called the execute of a Move
CalledMove == last.act \in ExecActs /\ last.op.op = "Move"

\* C29: Move(vector, absolute) requires a Link cursor: called at an Object or
\* ObjectWithAliases cursor it records the precondition error and leaves the
\* local translation unchanged; called at a Link cursor it replaces the local
\* translation by the vector when absolute is true and adds the vector to it
\* otherwise, and changes nothing else.
C29_Move ==
    CalledMove
        => /\ ~last.raised
           /\ IF IsLink(last.pre)
              THEN ctx = [last.pre EXCEPT
                             !.cur_location = IF last.op.flag THEN last.op.arg.n
                                              ELSE @ + last.op.arg.n]
              ELSE ctx = add_error(last.pre, LinkOpError)

\* whether the last step called the execute of a CreateLink and the call
\* returned
CalledCreateLink == Executed("CreateLink")

\* the part of the context that CreateLink leaves alone
Frame30(c) ==
    <<Cursor(c), Transform(c), c.scopes, c.export_captures, c.generated_objects>>

\* C30: CreateLink(name) requires a cursor at an object: called at a Link
\* cursor it records the precondition error and creates nothing; called at
\* an object it adds one marker node parented under the current object and
\* records no error.  In both cases the cursor, the local transform, the
\* scope stack, the capture stack and the generated-objects list are
\* unchanged.
C30_CreateLink ==
    CalledCreateLink
        => /\ Frame30(ctx) = Frame30(last.pre)
           /\ Len(stack) = last.depth
           /\ IF last.pre.cur_obj = None
              THEN /\ ctx = add_error(last.pre, InstanceOpError)
                   /\ Len(objects) = last.nobjs
              ELSE /\ ctx.errors = last.pre.errors
                   /\ Len(objects) = last.nobjs + 1
                   /\ objects[Len(objects)]
                        = Node(last.pre.cur_obj, NoProp, NoProp, 0, "S")

\* C30 witness: a CreateLink called inside a definition, with a capture
\* frame open and at an object that is already among the generated objects,
\* has added its marker under it
C30_Witness ==
    /\ CalledCreateLink
    /\ last.pre.cur_obj # None
    /\ last.pre.export_captures # <<>>
    /\ last.pre.generated_objects # <<>>
    /\ Len(objects) = last.nobjs + 1
    /\ objects[Len(objects)].parent = ctx.cur_obj

-----------------------------------------------------------------------------
(* Leaf instancers *)

\* whether the last step ended the expansion of a leaf instancer: the
\* pop_scope after its directive
ExpandedLeaf == last.act = "InstRet"

\* C31: when the expansion of a leaf instancer ends, the cursor and the local
\* transform are those of the moment the expansion started, whatever the
\* directive did, also when its list failed or raised inside a nested Scope
\* or EachLink.
C31_LeafExpansionRestores ==
    ExpandedLeaf
        => /\ Cursor(ctx) = Cursor(Top(stack).at)
           /\ Transform(ctx) = Transform(Top(stack).at)

-----------------------------------------------------------------------------
(* The for-loop tree: the End For Loop node "outer", whose In input is     *)
(* linked to the End For Loop node "inner", whose In input is linked to    *)
(* the node "body".  An input socket's execute(scope_context, forced)      *)
(* calls the execute of the node it is linked to, with the same arguments. *)
(* tree.nodes holds the ScNode fields of the three nodes and (history)     *)
(* whether execute was called on them since their reset, tree.iters the    *)
(* Iterations inputs, tree.stk the calls of ScNode.execute in progress,    *)
(* tree.calls the top-level calls still to come and tree.did (history)     *)
(* what the last step did.  scope_context is the dictionary passed along.  *)

\* largest Iterations input of a for-loop
MaxIter == 2

LoopNodes == {"outer", "inner", "body"}

IsLoop(n) == n \in {"outer", "inner"}

\* the node linked to the In input of a for-loop
InOf(n) == IF n = "outer" THEN "inner" ELSE "body"

\* ScNode.reset(execute)
reset(node, execute) ==
    IF execute THEN [node EXCEPT !.first_time = TRUE, !.scope_context_id = -1]
    ELSE node

get_scope_context_id(context) == context.id

\* a loop that leaves the id of its last iteration behind
restore_scope_context_id_keep(context, id) == context

restore_scope_context_id(context, id) == [context EXCEPT !.id = id]

increment_scope_context_id(context) == [context EXCEPT !.id = @ + 1]

\* ScEndForLoop.error_condition, and ScNode.error_condition for the body
error_condition(n, iters) == IsLoop(n) /\ iters[n] < 1

\* a gate that looks at first_time and forced only
MustRun_ignoreId(node, forced, id_changed) == node.first_time \/ forced

\* `self.first_time or forced or id_changed` of ScNode.execute
MustRun(node, forced, id_changed) == node.first_time \/ forced \/ id_changed

\* a call of ScNode.execute(scope_context, forced) on the node n
Call(n, forced) ==
    [node |-> n, forced |-> forced, ph |-> "enter", i |-> 0, n |-> 0,
     context_id |-> 0, seen |-> <<>>]

\* history: nothing done yet
NoCall ==
    [act |-> "", node |-> "", forced |-> FALSE, first |-> FALSE,
     fresh |-> FALSE, changed |-> FALSE, ok |-> FALSE, ran |-> FALSE, returned |-> FALSE,
     prev |-> FALSE, id |-> 0, pre |-> 0, n |-> 0, seen |-> <<>>]

\* the variables of the generator, which the tree leaves alone
generator == <<prog, seed, pc, sc_node, budget, hist, ctx, objects, stack, ret,
               nid, prop_obj_array, prop_random_state, last>>

LoopInit ==
    /\ prog = [isList |-> TRUE, ops |-> <<>>]
    /\ seed = 0
    /\ budget = 0
    /\ pc = "idle"
    /\ sc_node = [first_time |-> TRUE, scope_context_id |-> -1, node_error |-> FALSE]
    /\ scope_context = [id |-> 0]
    /\ hist = [began |-> 0, seeded |-> FALSE, draws |-> <<>>,
               end_state |-> NoState, ref |-> <<>>, trace |-> <<>>]
    /\ ctx = DslContext(RandomState(seed), StartLink)
    /\ objects = InitObjects
    /\ stack = <<>>
    /\ ret = FALSE
    /\ nid = 1
    /\ prop_obj_array = <<>>
    /\ prop_random_state = NoState
    /\ last = [act |-> "Init", pre |-> ctx, op |-> NoOp, raised |-> FALSE,
               depth |-> 0, nobjs |-> Len(InitObjects), exits |-> {},
               prepared |-> {}, executed |-> {}, failed |-> {}]
    /\ \E iters \in [{"outer", "inner"} -> 0..MaxIter] :
          tree = [nodes |-> [n \in LoopNodes |->
                               [first_time |-> TRUE, scope_context_id |-> -1,
                                node_error |-> FALSE, called |-> FALSE]],
                  iters |-> iters,
                  stk |-> <<>>,
                  calls |-> MaxExec,
                  did |-> NoCall]

\* reset_nodes: ScNode.reset(True) on every node of the tree
TreeReset ==
    /\ tree.stk = <<>>
    /\ \E n \in LoopNodes : tree.nodes[n].called
    /\ tree' = [tree EXCEPT !.nodes = [n \in LoopNodes |->
                                          [reset(@[n], TRUE) EXCEPT !.called = FALSE]],
                            !.did = [NoCall EXCEPT !.act = "TreeReset"]]
    /\ UNCHANGED scope_context
    /\ UNCHANGED generator

\* the tree executes its preview node, the outer End For Loop
TreeExecute ==
    /\ tree.stk = <<>> /\ tree.calls > 0
    /\ \E forced \in BOOLEAN :
          tree' = [tree EXCEPT !.stk = <<Call("outer", forced)>>,
                               !.calls = @ - 1,
                               !.did = [NoCall EXCEPT !.act = "TreeExecute"]]
    /\ UNCHANGED scope_context
    /\ UNCHANGED generator

\* ScNode.execute(scope_context, forced) on the node of the call on top:
\* inputs_ok is init_in(forced).  A for-loop that runs goes on to its
\* functionality; the body runs its pre_execute, functionality and
\* post_execute here; every other call returns `not self.node_error`.
ScNodeExecute ==
    /\ tree.stk # <<>> /\ Top(tree.stk).ph = "enter"
    /\ \E inputs_ok \in BOOLEAN :
          LET f == Top(tree.stk)
              node == tree.nodes[f.node]
              id_changed == node.scope_context_id # scope_context.id
              node1 == [node EXCEPT !.scope_context_id = scope_context.id,
                                    !.called = TRUE]
              must == MustRun(node, f.forced, id_changed)
              runs == must /\ inputs_ok /\ ~error_condition(f.node, tree.iters)
              node2 == IF ~must THEN node1
                       ELSE IF ~runs
                       THEN [node1 EXCEPT !.node_error = TRUE, !.first_time = FALSE]
                       ELSE IF IsLoop(f.node)
                       THEN [node1 EXCEPT !.node_error = TRUE]
                       ELSE [node1 EXCEPT !.node_error = FALSE, !.first_time = FALSE]
              did == [NoCall EXCEPT !.act = "ScNodeExecute", !.node = f.node,
                                    !.forced = f.forced,
                                    !.first = node.first_time,
                                    !.fresh = ~node.called,
                                    !.changed = id_changed,
                                    !.ok = inputs_ok
                                           /\ ~error_condition(f.node, tree.iters),
                                    !.ran = runs,
                                    !.prev = ~node.node_error,
                                    !.returned = ~node2.node_error,
                                    !.id = scope_context.id]
          IN tree' = [tree EXCEPT
                           !.nodes[f.node] = node2,
                           !.stk = IF runs /\ IsLoop(f.node)
                                   THEN [@ EXCEPT ![Len(@)] =
                                           [f EXCEPT !.ph = "loop",
                                                     !.n = range_len(tree.iters[f.node]),
                                                     !.context_id =
                                                        get_scope_context_id(scope_context)]]
                                   ELSE SubSeq(@, 1, Len(@) - 1),
                           !.did = did]
    /\ UNCHANGED scope_context
    /\ UNCHANGED generator

\* ScEndForLoop.functionality: an iteration: increment_scope_context_id()
\* and the call of the In input
EndForLoopIterate ==
    /\ tree.stk # <<>> /\ Top(tree.stk).ph = "loop"
    /\ Top(tree.stk).i < Top(tree.stk).n
    /\ LET f == Top(tree.stk)
           context == increment_scope_context_id(scope_context)
       IN /\ scope_context' = context
          /\ tree' = [tree EXCEPT
                        !.stk = Append([@ EXCEPT ![Len(@)] =
                                          [f EXCEPT !.i = @ + 1,
                                                    !.seen = Append(@, context.id)]],
                                       Call(InOf(f.node), FALSE)),
                        !.did = [NoCall EXCEPT !.act = "EndForLoopIterate",
                                               !.node = f.node]]
    /\ UNCHANGED generator

\* ScEndForLoop.functionality after the last iteration:
\* restore_scope_context_id(context_id); then post_execute and init_out
EndForLoopEnd ==
    /\ tree.stk # <<>> /\ Top(tree.stk).ph = "loop"
    /\ Top(tree.stk).i = Top(tree.stk).n
    /\ LET f == Top(tree.stk)
       IN /\ scope_context' = restore_scope_context_id(scope_context, f.context_id)
          /\ tree' = [tree EXCEPT
                        !.nodes[f.node] = [@ EXCEPT !.node_error = FALSE,
                                                    !.first_time = FALSE],
                        !.stk = SubSeq(@, 1, Len(@) - 1),
                        !.did = [NoCall EXCEPT !.act = "EndForLoopEnd",
                                               !.node = f.node,
                                               !.returned = TRUE,
                                               !.pre = f.context_id,
                                               !.n = tree.iters[f.node],
                                               !.seen = f.seen]]
    /\ UNCHANGED generator

LoopNext ==
    \/ TreeReset
    \/ TreeExecute
    \/ ScNodeExecute
    \/ EndForLoopIterate
    \/ EndForLoopEnd

LoopSpec == LoopInit /\ [][LoopNext]_vars

-----------------------------------------------------------------------------
(* Node execution *)

\* whether the last step was a call of ScNode.execute
CalledNode == tree.did.act = "ScNodeExecute"

\* whether the call of the last step was the first on its node since the
\* reset, or forced, or made with a scope context id other than the id of
\* the node's previous execution
GateOpen == tree.did.fresh \/ tree.did.forced \/ tree.did.changed

Caller ==
    IF tree.did.ran /\ IsLoop(tree.did.node)
    THEN tree.stk[Len(tree.stk) - 1]
    ELSE Top(tree.stk)

\* C33: ScEndForLoop.functionality executes its In input exactly Iterations
\* times; it increments the shared scope context id by one before each
\* execution, so that the executions see the ids pre+1 .. pre+Iterations,
\* one after the other; when the loop ends the id is again pre, the id
\* before the loop.
C33_ForLoop ==
    /\ (CalledNode /\ tree.did.node # "outer")
        => /\ tree.did.node = InOf(Caller.node)
           /\ ~tree.did.forced
           /\ Caller.seen # <<>>
           /\ tree.did.id = Caller.seen[Len(Caller.seen)]
           /\ tree.did.id = Caller.context_id + Caller.i
    /\ tree.did.act = "EndForLoopEnd"
        => /\ Len(tree.did.seen) = tree.did.n
           /\ \A k \in 1..tree.did.n : tree.did.seen[k] = tree.did.pre + k
           /\ scope_context.id = tree.did.pre

\* C33 witness: the inner loop ends after two iterations made inside an
\* iteration of the outer loop; the id is back from pre+2 to pre
C33_Witness ==
    /\ tree.did.act = "EndForLoopEnd" /\ tree.did.node = "inner"
    /\ tree.did.n = 2 /\ tree.did.pre > 0
    /\ tree.did.seen = <<tree.did.pre + 1, tree.did.pre + 2>>
    /\ scope_context.id = tree.did.pre

\* whether the last step was the call a loop iteration made on the node
\* in the body of the inner loop
CalledBody == CalledNode /\ tree.did.node = "body"

\* C34: with a for-loop inside the body of another, the node in the body of
\* the inner loop is re-executed on every inner iteration of every outer
\* iteration: the scope context id it is called with differs from the id of
\* its previous execution, its inputs are executed again and, when they are
\* fine, so are its pre_execute, functionality and post_execute.
C34_NestedLoopsReexecute ==
    CalledBody
        => /\ tree.did.changed
           /\ tree.did.ok => tree.did.ran

-----------------------------------------------------------------------------
(* The generator node *)

\* whether post_execute is about to run with first_time false: it will
\* restore the stream from prop_random_state
AboutToRestore == pc = "exec" /\ ~sc_node.first_time

\* C35: whenever ScGenerate.post_execute runs with first_time false,
\* prop_random_state holds a snapshot saved by an earlier post_execute, also
\* after an execute call that stopped at a failed input or at
\* error_condition.
C35_RestoreOnlySavedSnapshot ==
    AboutToRestore => prop_random_state # NoState

\* whether a run of post_execute has just ended
RunEnded == pc = "done" /\ last.act = "PostExecuteEnd"

\* C36: every scene node appended to the generated-objects list of
\* the context during a run is in the Generated Objects array the node
\* reports, whether or not the run ends with errors.
C36_AllGeneratedReported ==
    RunEnded
        => \A k \in 1..Len(ctx.generated_objects) :
              \E j \in 1..Len(prop_obj_array) :
                 prop_obj_array[j] = ctx.generated_objects[k]

-----------------------------------------------------------------------------
(* The error list *)

\* the steps that call the execute of an item of the body of a Scope, a
\* Repeat, an EachLink or a definition
BodyActs == {"ScopeStep", "RepeatStep", "EachStep", "DefineStep"}

\* whether the last step ended the evaluation of a directive list that was
\* started with errors already recorded
BlockedDirective ==
    /\ last.act = "InstRet" /\ Top(stack).isList
    /\ Top(stack).at.errors # <<>>

\* C37: during a run the error list only grows.  Once it is non-empty no
\* evaluation of an operation list, top-level or of a leaf instancer,
\* executes an operation: execute is called from evaluate_production only
\* with an empty error list; a directive list of one or more operations
\* evaluated with errors recorded returns False, generates nothing and
\* leaves exactly one further error.
\* The items of Scope, Repeat, EachLink and definition bodies are executed
\* whatever the error list holds.
C37_ErrorsBlockEvaluation ==
    /\ last.act # "PostExecuteBegin" => IsPrefix(last.pre.errors, ctx.errors)
    /\ last.act = "EvalExecute" => last.pre.errors = <<>>
    /\ BlockedDirective
        => /\ ~ret
           /\ ctx.errors = Append(Top(stack).at.errors,
                                  "Could not evaluate instancer on object")
           /\ ctx.generated_objects = Top(stack).at.generated_objects
    /\ last.act \in BodyActs => last.op # NoOp

\* C37 witness: inside a Repeat body an operation recorded an error, the
\* next item of the body was executed all the same and generated an object,
\* and the directive list of its leaf instancer was then refused with one
\* more error
C37_Witness ==
    /\ BlockedDirective
    /\ Top(stack).at.generated_objects # <<>>
    /\ Len(ctx.errors) = Len(Top(stack).at.errors) + 1
    /\ \E k \in 1..Len(stack) : stack[k].kind = "repeat"

====
